---- MODULE Spec2Model ----
(***************************************************************************)
(* A model of the streaming speech pipeline of atlas-agents:               *)
(* LocalTTSService (packages/speech-tts-local/src/LocalTTSService.ts) and  *)
(* the TTSCache it holds (packages/speech-tts/src/TTSCache.ts).            *)
(*                                                                         *)
(* JavaScript runs one task at a time.  Every action below is one piece of *)
(* code that runs to completion: a public method up to its first await, a  *)
(* continuation of an async function after an await, or a callback of the  *)
(* environment (timer, socket event, audio event).  A task whose awaited   *)
(* promise has settled sits in a pc starting with "r_" until its           *)
(* continuation (a microtask) runs; callbacks of the environment           *)
(* (macrotasks) run only when no continuation is waiting.                  *)
(***************************************************************************)
EXTENDS Integers, Sequences, FiniteSets, TLC

\* ------------------------------------------------------------------ bounds
\* Synthesize calls (speak calls plus queued segments) in one run; a call's
\* number is also its request id and the name of its audio source.
MaxTasks == 3
Calls == 2
\* Speak calls in a run that has the recognition session beside them.
SoloCalls == 1
\* Sockets that exist at the same time.
MaxSockets == 2
\* Calls of start() on the recognition session in one run; a call's number is
\* also the name of its stream, its session id and its recorder.
MaxStarts == 2
\* dataavailable events of the recorders in a run.
MaxChunks == 2
\* Characters the chunk buffer may hold.
MaxBuf == 5
\* TTSCache's maxSize and ttlMs (constructor parameters), the latter in ticks
\* of the cache's clock.
cacheSize == 1
cacheTtl == 1
\* The longest text splitIntoSegments and textToVisemes are called with.
MaxText == 5
MaxVisText == 3
\* Calls of textToVisemes in one run.
MaxVisCalls == 2
\* Durations are counted in 1/TimeScale of a millisecond, so that a total
\* divided among up to MaxVisText visemes stays whole.
TimeScale == 6
\* The rounding tolerance on a sum of durations, in milliseconds.
Tolerance == 1
\* A small maxSegmentLength and minSplitIndex set through the environment
\* (TTS_MAX_SEGMENT_LENGTH, TTS_MIN_SPLIT_INDEX).
SmallCap == 3
SmallMin == 0
\* The largest maxSize a TTSCache exercised on its own is made with.
MaxStore == 3
\* Calls of queueAnimations in one run, those made from a callback included.
MaxQueues == 3
\* The longest duration in the registry, in ticks of msPerTick.
MaxDur == 2
\* Handlers on the bus when once() is in play.
MaxOnceHandlers == 2
\* Calls of once() on the event bus in one run.
MaxOnce == 2
\* Handlers that subscribe to the event bus.
MaxHandlers == 3

\* getConfig().tts.maxSegmentLength and .minSplitIndex
maxSegmentLength == 200
minSplitIndex == 50

\* textToVisemes: milliseconds per character when no duration is given, and
\* the durations of the silence put before and after, in milliseconds.
msPerChar == 80
leadSilence == 50
tailSilence == 100
VISEME_CACHE_MAX_SIZE == 200

\* getConfig().tts.durationMultiplier, as milliseconds per character.
durationMultiplier == 150

\* The milliseconds in one tick of the animation clock.
msPerTick == 1500

\* ------------------------------------------------------------------- text
\* A text is a sequence of one-character strings.
IsWs(c) == c = " "

RECURSIVE TrimStart(_)
TrimStart(s) == IF s # <<>> /\ IsWs(Head(s)) THEN TrimStart(Tail(s)) ELSE s

RECURSIVE TrimEnd(_)
TrimEnd(s) ==
  IF s # <<>> /\ IsWs(s[Len(s)]) THEN TrimEnd(SubSeq(s, 1, Len(s) - 1)) ELSE s

\* String.prototype.trim
Trim(s) == TrimEnd(TrimStart(s))

\* s.slice(n): what follows the first n characters
Slice(s, n) == SubSeq(s, n + 1, Len(s))

Min(S) == CHOOSE x \in S : \A y \in S : x <= y
Max(S) == CHOOSE x \in S : \A y \in S : x >= y

\* The length of the match of /^.+?[<puncts>](?:\s+|$)/ on s, 0 when there is
\* none: at least one character, lazily few, then a punctuation mark that is
\* followed by whitespace or ends the text, then all the whitespace after it.
MatchLen(s, puncts) ==
  LET ends == {i \in 2..Len(s) :
                  /\ s[i] \in puncts
                  /\ (i = Len(s) \/ IsWs(s[i + 1]))}
  IN  IF ends = {} THEN 0
      ELSE LET i == Min(ends)
               ws == {j \in (i + 1)..Len(s) : \A k \in (i + 1)..j : IsWs(s[k])}
           IN  IF ws = {} THEN i ELSE Max(ws)

\* remaining.lastIndexOf(' ', from), as a 0-based index, -1 when there is none
LastIndexOfSpace(s, from) ==
  LET at == {i \in 0..(Len(s) - 1) : i <= from /\ s[i + 1] = " "}
  IN  IF at = {} THEN -1 ELSE Max(at)

\* The loop of splitIntoSegments on what remains, segs being the segments
\* pushed so far.
RECURSIVE SplitLoop(_, _, _, _)
SplitLoop(remaining, segs, maxLen, minIdx) ==
  IF Len(remaining) = 0 THEN segs
  ELSE
    LET sm == MatchLen(remaining, {".", "!", "?"})
        pm == MatchLen(remaining, {";", ","})
        si == LastIndexOfSpace(remaining, maxLen)
    IN  IF sm > 0
          THEN SplitLoop(Trim(Slice(remaining, sm)),
                         Append(segs, Trim(SubSeq(remaining, 1, sm))), maxLen, minIdx)
        ELSE IF pm > 0
          THEN SplitLoop(Trim(Slice(remaining, pm)),
                         Append(segs, Trim(SubSeq(remaining, 1, pm))), maxLen, minIdx)
        ELSE IF Len(remaining) > maxLen /\ si > minIdx
          THEN SplitLoop(Trim(Slice(remaining, si)),
                         Append(segs, Trim(SubSeq(remaining, 1, si))), maxLen, minIdx)
        ELSE Append(segs, remaining)

SplitWith(text, maxLen, minIdx) ==
  SelectSeq(SplitLoop(Trim(text), <<>>, maxLen, minIdx), LAMBDA s : Len(s) > 0)

splitIntoSegments(text) == SplitWith(text, maxSegmentLength, minSplitIndex)

\* ------------------------------------------------------------------ state
VARIABLES
  tasks,               \* the calls of synthesize, by number: speak calls and
                       \* the steps of processSegmentQueue
  nextTask,            \* the number the next call gets (crypto.randomUUID)
  isSpeaking,          \* _isSpeaking
  currentAudioSource,  \* 0 (null) or the source it holds
  audible,             \* the sources that were started and neither stopped nor ended
  halting,             \* the sources stopped with stop() whose 'ended' event is due
  sockets,             \* every WebSocket object's state
  ws,                  \* 0 (null) or the socket
  wsConnecting,        \* 0 (null) or the socket whose connection promise it is
  inbox,               \* per socket, the server's messages on their way
  sentOn,              \* per request the server has still to answer, the socket
                       \* that carried it (0: not sent, answered, or socket gone)
  pendingTTS,          \* the ids pendingTTS maps
  pendingMeta,         \* 0 (null) or the id of the announced result
  timers,              \* the requests whose 30 s timer is armed
  chunkBuffer,
  chunkBufferTimeout,  \* "null" or "set": whether it holds a timer's handle
  armed,               \* the debounce timers that are armed
  audioSegmentQueue,
  isPlayingQueue,
  cache,               \* TTSCache's Map, in insertion order
  emitted,             \* the events the last step emitted on the event bus
  settled,             \* per request, how often its resolve or reject was called
  sinceFlush           \* the chunks passed to speakChunk since the last flush or stop

ttsVars == <<tasks, nextTask, isSpeaking, currentAudioSource, audible, halting,
             sockets, ws, wsConnecting, inbox, pendingTTS, pendingMeta,
             timers, chunkBuffer, chunkBufferTimeout, armed, sentOn,
             audioSegmentQueue, isPlayingQueue, cache, emitted, settled,
             sinceFlush>>

\* LocalSTTService (the recognition session)
VARIABLES
  starts,              \* the calls of start(), by number
  nextStart,           \* the number the next call of start() gets
  isListening,         \* _isListening
  sttSockets,          \* every WebSocket object's state
  sttWs,               \* ws: 0 (null) or the socket
  sttWsConnecting,     \* wsConnecting: 0 (null) or the socket it is the promise of
  sessionId,           \* 0 (null) or the session id
  mediaRecorder,       \* 0 (null) or the recorder
  audioStream,         \* 0 (null) or the stream of the capture device
  capturing,           \* the streams whose tracks are live: the device is held
  recording,           \* the recorders that are recording
  released,            \* per stream, how often its tracks were stopped
  heardOn,             \* per session the server was told of, the socket that
                       \* carried its stt:start (0: none, or the socket is gone)
  sttSent,             \* the envelopes sent to the server, in order
  sttEmitted,          \* the events the last step emitted on the event bus
  disposed             \* dispose() was called

sttVars == <<starts, nextStart, isListening, sttSockets, sttWs, sttWsConnecting,
             sessionId, mediaRecorder, audioStream, capturing, recording,
             released, heardOn, sttSent, sttEmitted, disposed>>

\* The audio chunks of the recorders on their way to the server.
VARIABLES
  chunks,              \* per dataavailable event: where its handler is, and the
                       \* session id its stt:audio envelope carried
  nextChunk,           \* the number of the next dataavailable event
  lastEnvelope         \* the transcript or error envelope handleMessage saw
                       \* last: its id, its type, the session id at that time

wireVars == <<chunks, nextChunk, lastEnvelope>>

\* The fields and resources of the recognition session, its events aside.
sttVarsButEmitted ==
  <<starts, nextStart, isListening, sttSockets, sttWs, sttWsConnecting,
    sessionId, mediaRecorder, audioStream, capturing, recording, released,
    heardOn, sttSent, disposed>>

\* The library functions and classes that are exercised on their own.
VARIABLES
  splitIn,             \* the text splitIntoSegments is called with
  splitOut,            \* the segments it returned
  splitDone,           \* splitIntoSegments has returned
  splitCap,            \* getConfig().tts.maxSegmentLength at the call
  splitMin,            \* getConfig().tts.minSplitIndex at the call
  loopRemaining,       \* splitIntoSegments run step by step: its `remaining`
  loopSegments,        \* and its `segments`
  store,               \* a TTSCache on its own: its Map, in insertion order
  storeMax,            \* its maxSize
  got,                 \* what its last get() returned: <<>> or <<entry>>
  storeLog,            \* its last call: the operation, the key, the Map before
  visText,             \* the text textToVisemes is called with
  visHint,             \* its duration argument in ms, or Auto when left out
  visOut,              \* the VisemeData[] it returned
  visDone,             \* textToVisemes has returned
  visemeCache,         \* the module's cache of results, in insertion order
  visCalls,            \* calls of textToVisemes made
  listeners,           \* the event bus: event -> its Set of handlers, in order
  throwing,            \* the handlers whose body throws
  called,              \* the handlers the last emit() invoked, in order
  escaped,             \* the last emit() threw to its caller
  emitting,            \* the handlers whose body emits the event once more
  wrapped,             \* once() wrapper -> the event and handler it wraps
  delivered,           \* once() wrapper -> times its handler was invoked
  subs,                \* the subscriptions made and not taken back
  lastEmit             \* the event of the last emit(), "none" before it

splitVars == <<splitIn, splitOut, splitDone, splitCap, splitMin, loopRemaining,
              loopSegments>>
storeVars == <<store, storeMax, got, storeLog>>
visVars == <<visText, visHint, visOut, visDone, visemeCache, visCalls>>
busVars == <<listeners, throwing, called, escaped, emitting, wrapped, delivered,
            subs, lastEmit>>

\* The AnimationManager on its own.
VARIABLES
  animQueues,          \* call of queueAnimations -> its closure and what it did
  nextQueue,           \* the number of the next call of queueAnimations
  animTimer,           \* call -> ticks left on its setTimeout, NoTimer if none
  queueTimeouts,       \* the calls whose pending timeout is in queueTimeouts
  currentAction,       \* the name of this.currentAction, "null" if none
  animPlaying,         \* the actions playing and not faded out
  mixer,               \* this.mixer is set
  actions              \* the names in this.actions

animVars == <<animQueues, nextQueue, animTimer, queueTimeouts, currentAction,
              animPlaying, mixer, actions>>

libVars == <<splitVars, storeVars, visVars, busVars, animVars>>

vars == <<ttsVars, sttVars, wireVars, libVars>>

\* What the speech orchestrator leaves alone, and what the recognition
\* session leaves alone.
others == <<sttVars, wireVars, libVars>>
beside == <<ttsVars, wireVars, libVars>>

TaskIds == 1..MaxTasks
SockIds == 1..MaxSockets

\* The texts speak() is called with and the chunks speakChunk() is called with.
SpeakTexts == { <<"a", ".">>, <<"a", ".", "a", ".">> }
OneText == { <<"a", ".">> }
Chunks == { <<"a", ".">>, <<" ", "a", ".">> }

\* The payload of a binary frame: Empty (byteLength 0) or the audio the server
\* made for request n.
EmptyAudio == -1
NoAudio == 0

FreeTask == [kind |-> "none", text |-> <<>>, pc |-> "free", sock |-> 0,
             audio |-> NoAudio, stopped |-> FALSE, result |-> "none"]

ReadyPcs == {"r_connected", "r_synth_ok", "r_decoded", "r_ok", "r_fail"}
ActivePcs == {"connect", "respond", "resume", "decode", "playing"} \cup ReadyPcs

Active(t) == tasks[t].pc \in ActivePcs

\* No continuation is waiting and no socket is between its error event and its
\* close event: the event loop may run the next callback of the environment.
Idle ==
  /\ \A t \in TaskIds : tasks[t].pc \notin ReadyPcs
  /\ \A s \in SockIds : sockets[s] # "failed"

\* A call of start() not yet made.
FreeStart == [pc |-> "free", sock |-> 0, result |-> "none"]

ChunkIds == 1..MaxChunks

FreeChunk == [pc |-> "free", id |-> 0]

NoEnvelope == [id |-> 0, type |-> "none", session |-> 0]

StartIds == 1..MaxStarts

\* LocalSTTService after its constructor.
SttInit ==
  /\ chunks = [k \in ChunkIds |-> FreeChunk]
  /\ nextChunk = 1
  /\ lastEnvelope = NoEnvelope
  /\ starts = [c \in StartIds |-> FreeStart]
  /\ nextStart = 1
  /\ isListening = FALSE
  /\ sttSockets = [s \in SockIds |-> "free"]
  /\ sttWs = 0
  /\ sttWsConnecting = 0
  /\ sessionId = 0
  /\ mediaRecorder = 0
  /\ audioStream = 0
  /\ capturing = {}
  /\ recording = {}
  /\ released = [c \in StartIds |-> 0]
  /\ heardOn = [c \in StartIds |-> 0]
  /\ sttSent = <<>>
  /\ sttEmitted = {}
  /\ disposed = FALSE

\* Events of the bus and the handlers subscribed to them.
BusEvents == {"stt:started", "stt:stopped"}
HandlerIds == 1..MaxHandlers

\* No library function is being exercised.
SplitIdle ==
  /\ splitIn = <<>> /\ splitOut = <<>> /\ splitDone = FALSE
  /\ splitCap = maxSegmentLength /\ splitMin = minSplitIndex
  /\ loopRemaining = <<>> /\ loopSegments = <<>>

NoCall == [op |-> "none", key |-> <<>>, before |-> <<>>]

StoreIdle == store = <<>> /\ storeMax = 1 /\ got = <<>> /\ storeLog = NoCall

VisIdle ==
  /\ visText = <<>> /\ visHint = 0 /\ visOut = <<>> /\ visDone = FALSE
  /\ visemeCache = <<>> /\ visCalls = 0

\* The wrappers once() makes; a wrapper not made yet wraps nothing.
WrapIds == (MaxHandlers + 1)..(MaxHandlers + MaxOnce)
NoWrap == [event |-> "none", h |-> 0]

\* An event bus nobody has subscribed to, its handlers doing nothing special.
BusFresh ==
  /\ listeners = [e \in BusEvents |-> <<>>]
  /\ called = <<>>
  /\ escaped = FALSE
  /\ wrapped = [w \in WrapIds |-> NoWrap]
  /\ delivered = [w \in WrapIds |-> 0]
  /\ subs = {}
  /\ lastEmit = "none"

BusIdle == BusFresh /\ throwing = {} /\ emitting = {}

\* Calls of queueAnimations, and a call not made yet.
QueueIds == 1..MaxQueues
NoTimer == -1
FreeQueue == [triggers |-> <<>>, index |-> 0, pc |-> "free", react |-> "none",
              reactAt |-> 0, again |-> <<>>, plays |-> <<>>, completes |-> 0,
              cancelled |-> FALSE, since |-> 0]

\* An AnimationManager after initialize(), with nothing loaded or queued.
AnimIdle ==
  /\ animQueues = [q \in QueueIds |-> FreeQueue]
  /\ nextQueue = 1
  /\ animTimer = [q \in QueueIds |-> NoTimer]
  /\ queueTimeouts = {}
  /\ currentAction = "null"
  /\ animPlaying = {}
  /\ mixer = TRUE
  /\ actions = {}

LibInit == SplitIdle /\ StoreIdle /\ VisIdle /\ BusIdle /\ AnimIdle

\* LocalTTSService after its constructor.
TtsInit ==
  /\ tasks = [t \in TaskIds |-> FreeTask]
  /\ nextTask = 1
  /\ isSpeaking = FALSE
  /\ currentAudioSource = 0
  /\ audible = {}
  /\ halting = {}
  /\ sockets = [s \in SockIds |-> "free"]
  /\ ws = 0
  /\ wsConnecting = 0
  /\ inbox = [s \in SockIds |-> <<>>]
  /\ pendingTTS = {}
  /\ pendingMeta = 0
  /\ timers = {}
  /\ chunkBuffer = <<>>
  /\ chunkBufferTimeout = "null"
  /\ armed = 0
  /\ sentOn = [t \in TaskIds |-> 0]
  /\ audioSegmentQueue = <<>>
  /\ isPlayingQueue = FALSE
  /\ cache = <<>>
  /\ emitted = {}
  /\ settled = [t \in TaskIds |-> 0]
  /\ sinceFlush = <<>>

\* Both services after their constructors; no library function in use.
Init ==
  /\ SttInit
  /\ LibInit
  /\ TtsInit

\* ------------------------------------------------------------------ cache
CacheIndex(text) == {i \in 1..Len(cache) : cache[i].text = text}

CacheHas(text) == CacheIndex(text) # {}

CacheEntry(text) == cache[CHOOSE i \in CacheIndex(text) : TRUE]

Expired(e) == e.age > cacheTtl

RemoveAt(q, i) == SubSeq(q, 1, i - 1) \o SubSeq(q, i + 1, Len(q))

\* TTSCache.get finds an entry that has not expired.
CacheHit(text) == CacheHas(text) /\ ~Expired(CacheEntry(text))

\* The Map after TTSCache.get(text): an expired entry is deleted on the way.
CacheAfterGet(text) ==
  IF CacheHas(text) /\ Expired(CacheEntry(text))
    THEN RemoveAt(cache, CHOOSE i \in CacheIndex(text) : TRUE)
    ELSE cache

\* The Map after TTSCache.set(text, audio): at capacity its first key goes,
\* then Map.set replaces the value of a key in place or appends a new key.
CacheAfterSet(text, audio) ==
  LET c1 == IF Len(cache) >= cacheSize /\ Len(cache) > 0 THEN Tail(cache) ELSE cache
      at == {i \in 1..Len(c1) : c1[i].text = text}
      e  == [text |-> text, audio |-> audio, age |-> 0]
  IN  IF at = {} THEN Append(c1, e)
      ELSE [c1 EXCEPT ![CHOOSE i \in at : TRUE] = e]

\* ------------------------------------------------------- synthesize, begun
\* synthesize(text) up to its first await: the cache lookup, then
\* ensureWebSocket.
NeedsSocket(text) == ~CacheHit(text) /\ ws = 0 /\ wsConnecting = 0

FreeSock == CHOOSE s \in SockIds : sockets[s] = "free"

\* A WebSocket object can be made when ensureWebSocket makes one.
CanBegin(text) == NeedsSocket(text) => \E s \in SockIds : sockets[s] = "free"

\* synthesize without its cache lookup
NewTaskNoCache(kind, text) ==
  [kind |-> kind, text |-> text,
   pc |-> IF ws # 0 THEN "r_connected" ELSE "connect",
   sock |-> IF ws # 0 THEN 0
            ELSE IF wsConnecting # 0 THEN wsConnecting ELSE FreeSock,
   audio |-> NoAudio, stopped |-> FALSE, result |-> "none"]

\* The call as its first await leaves it: resolved from the cache, about to
\* send on the open socket, or waiting for the connection promise.
NewTask(kind, text) ==
  [kind |-> kind, text |-> text,
   pc |-> IF CacheHit(text) THEN "r_synth_ok"
          ELSE IF ws # 0 THEN "r_connected" ELSE "connect",
   sock |-> IF CacheHit(text) \/ ws # 0 THEN 0
            ELSE IF wsConnecting # 0 THEN wsConnecting ELSE FreeSock,
   audio |-> IF CacheHit(text) THEN CacheEntry(text).audio ELSE NoAudio,
   stopped |-> FALSE, result |-> "none"]

SocketsAfterEnsure(text) ==
  IF NeedsSocket(text) THEN [sockets EXCEPT ![FreeSock] = "connecting"] ELSE sockets

ConnectingAfterEnsure(text) ==
  IF NeedsSocket(text) THEN FreeSock ELSE wsConnecting

DoneTask(t, res) ==
  [FreeTask EXCEPT !.kind = tasks[t].kind, !.pc = "done", !.result = res]

Settle(t) == [settled EXCEPT ![t] = @ + 1]

\* Every synthesize call of the run has a number: those begun, plus one per
\* queued segment.
Room(n) == (nextTask - 1) + n <= MaxTasks

audioVars == <<currentAudioSource, audible, halting>>
sockVars == <<sockets, ws, wsConnecting, inbox, sentOn>>
reqVars == <<pendingTTS, pendingMeta, timers, settled>>
chunkVars == <<chunkBuffer, chunkBufferTimeout, armed, sinceFlush>>
queueVars == <<audioSegmentQueue, isPlayingQueue>>

\* A scenario of n synthesize calls: a call fits in, and a flush kept within.
Fits(n) == (nextTask - 1) + Len(audioSegmentQueue) + 1 <= n

Flushed(n) == (nextTask' - 1) + Len(audioSegmentQueue') <= n

\* processSegmentQueue() on queue q, base being the calls as the caller leaves
\* them: an empty queue clears the flag, otherwise the head is shifted and its
\* synthesize begun.
ProcessSegmentQueue(q, base) ==
  IF q = <<>>
    THEN /\ isPlayingQueue' = FALSE
         /\ audioSegmentQueue' = q
         /\ tasks' = base
         /\ UNCHANGED <<nextTask, cache, sockets, wsConnecting>>
    ELSE /\ CanBegin(Head(q))
         /\ nextTask <= MaxTasks
         /\ isPlayingQueue' = TRUE
         /\ audioSegmentQueue' = Tail(q)
         /\ tasks' = [base EXCEPT ![nextTask] = NewTask("queue", Head(q))]
         /\ nextTask' = nextTask + 1
         /\ cache' = CacheAfterGet(Head(q))
         /\ sockets' = SocketsAfterEnsure(Head(q))
         /\ wsConnecting' = ConnectingAfterEnsure(Head(q))

\* ------------------------------------------------------------- public API
\* speak(text), up to the await of synthesize.
Speak(text) ==
  /\ Room(Len(audioSegmentQueue) + 1)
  /\ CanBegin(text)
  /\ emitted' = {"tts:speaking-started"}
  /\ isSpeaking' = TRUE
  /\ tasks' = [tasks EXCEPT ![nextTask] = NewTask("speak", text)]
  /\ nextTask' = nextTask + 1
  /\ cache' = CacheAfterGet(text)
  /\ sockets' = SocketsAfterEnsure(text)
  /\ wsConnecting' = ConnectingAfterEnsure(text)
  /\ UNCHANGED <<audioVars, ws, inbox, sentOn, reqVars, chunkVars,
                 queueVars>>
  /\ UNCHANGED others

\* clearTimeout(chunkBufferTimeout) disarms the timer the handle names.
Cleared == IF chunkBufferTimeout = "set" /\ armed > 0 THEN armed - 1 ELSE armed

\* speakChunk without its clearTimeout
SpeakChunkNoClear(text) ==
  /\ Room(Len(audioSegmentQueue) + 1)
  /\ Len(chunkBuffer) + Len(text) <= MaxBuf
  /\ chunkBuffer' = chunkBuffer \o text
  /\ sinceFlush' = sinceFlush \o text
  /\ chunkBufferTimeout' = "set"
  /\ armed' = armed + 1
  /\ emitted' = {}
  /\ UNCHANGED <<tasks, nextTask, isSpeaking, audioVars, sockVars, reqVars,
                 queueVars, cache>>
  /\ UNCHANGED others

SpeakChunk(text) ==
  /\ Room(Len(audioSegmentQueue) + 1)
  /\ Len(chunkBuffer) + Len(text) <= MaxBuf
  /\ chunkBuffer' = chunkBuffer \o text
  /\ sinceFlush' = sinceFlush \o text
  /\ chunkBufferTimeout' = "set"
  /\ armed' = Cleared + 1
  /\ emitted' = {}
  /\ UNCHANGED <<tasks, nextTask, isSpeaking, audioVars, sockVars, reqVars,
                 queueVars, cache>>
  /\ UNCHANGED others

\* stop() without `this.audioSegmentQueue = []`
StopKeepsQueue ==
  /\ currentAudioSource' = 0
  /\ audible' = audible \ {currentAudioSource}
  /\ halting' = halting \cup ({currentAudioSource} \cap audible)
  /\ chunkBuffer' = <<>>
  /\ sinceFlush' = <<>>
  /\ armed' = Cleared
  /\ chunkBufferTimeout' = "null"
  /\ isPlayingQueue' = FALSE
  /\ tasks' = [t \in TaskIds |->
                 IF t \in pendingTTS
                   THEN [tasks[t] EXCEPT !.pc = "r_fail", !.result = "stopped",
                                         !.stopped = TRUE]
                 ELSE IF Active(t) THEN [tasks[t] EXCEPT !.stopped = TRUE]
                 ELSE tasks[t]]
  /\ settled' = [t \in TaskIds |->
                   IF t \in pendingTTS THEN settled[t] + 1 ELSE settled[t]]
  /\ pendingTTS' = {}
  /\ pendingMeta' = 0
  /\ isSpeaking' = FALSE
  /\ emitted' = {"tts:stopped"}
  /\ UNCHANGED <<nextTask, sockVars, timers, cache, audioSegmentQueue>>
  /\ UNCHANGED others

\* stop() without `this.pendingTTS.clear()`
StopNoClear ==
  /\ currentAudioSource' = 0
  /\ audible' = audible \ {currentAudioSource}
  /\ halting' = halting \cup ({currentAudioSource} \cap audible)
  /\ chunkBuffer' = <<>>
  /\ sinceFlush' = <<>>
  /\ armed' = Cleared
  /\ chunkBufferTimeout' = "null"
  /\ audioSegmentQueue' = <<>>
  /\ isPlayingQueue' = FALSE
  /\ tasks' = [t \in TaskIds |->
                 IF t \in pendingTTS
                   THEN [tasks[t] EXCEPT !.pc = "r_fail", !.result = "stopped",
                                         !.stopped = TRUE]
                 ELSE IF Active(t) THEN [tasks[t] EXCEPT !.stopped = TRUE]
                 ELSE tasks[t]]
  /\ settled' = [t \in TaskIds |->
                   IF t \in pendingTTS THEN settled[t] + 1 ELSE settled[t]]
  /\ pendingMeta' = 0
  /\ isSpeaking' = FALSE
  /\ emitted' = {"tts:stopped"}
  /\ UNCHANGED <<nextTask, sockVars, timers, cache, pendingTTS>>
  /\ UNCHANGED others

\* stop(): the current source is stopped (its 'ended' event follows), the
\* buffer, the timer and the queue are cleared, every pending request is
\* rejected.
Stop ==
  /\ currentAudioSource' = 0
  /\ audible' = audible \ {currentAudioSource}
  /\ halting' = halting \cup ({currentAudioSource} \cap audible)
  /\ chunkBuffer' = <<>>
  /\ sinceFlush' = <<>>
  /\ armed' = Cleared
  /\ chunkBufferTimeout' = "null"
  /\ audioSegmentQueue' = <<>>
  /\ isPlayingQueue' = FALSE
  /\ tasks' = [t \in TaskIds |->
                 IF t \in pendingTTS
                   THEN [tasks[t] EXCEPT !.pc = "r_fail", !.result = "stopped",
                                         !.stopped = TRUE]
                 ELSE IF Active(t) THEN [tasks[t] EXCEPT !.stopped = TRUE]
                 ELSE tasks[t]]
  /\ settled' = [t \in TaskIds |->
                   IF t \in pendingTTS THEN settled[t] + 1 ELSE settled[t]]
  /\ pendingTTS' = {}
  /\ pendingMeta' = 0
  /\ isSpeaking' = FALSE
  /\ emitted' = {"tts:stopped"}
  /\ UNCHANGED <<nextTask, sockVars, timers, cache>>
  /\ UNCHANGED others

ClearCache ==
  /\ cache # <<>>
  /\ cache' = <<>>
  /\ emitted' = {}
  /\ UNCHANGED <<tasks, nextTask, isSpeaking, audioVars, sockVars, reqVars,
                 chunkVars, queueVars>>
  /\ UNCHANGED others

\* ------------------------------------------------------------ continuations
\* synthesize without its setTimeout
ConnectedNoTimer(t) ==
  /\ tasks[t].pc = "r_connected"
  /\ ws # 0
  /\ pendingTTS' = pendingTTS \cup {t}
  /\ tasks' = [tasks EXCEPT ![t].pc = "respond"]
  /\ sentOn' = [sentOn EXCEPT ![t] = ws]
  /\ emitted' = {}
  /\ UNCHANGED <<nextTask, isSpeaking, audioVars, sockets, ws, wsConnecting,
                 inbox, pendingMeta, chunkVars, queueVars, cache, timers,
                 settled>>
  /\ UNCHANGED others

\* synthesize after `await this.ensureWebSocket()`: the request is registered
\* and sent and its timer armed.  With no socket to send on, send throws in
\* the promise's executor, after pendingTTS.set and before setTimeout.
Connected(t) ==
  /\ tasks[t].pc = "r_connected"
  /\ pendingTTS' = pendingTTS \cup {t}
  /\ IF ws = 0
       THEN /\ tasks' = [tasks EXCEPT ![t].pc = "r_fail", ![t].result = "send"]
            /\ settled' = Settle(t)
            /\ UNCHANGED <<sentOn, timers>>
       ELSE /\ tasks' = [tasks EXCEPT ![t].pc = "respond"]
            /\ sentOn' = [sentOn EXCEPT ![t] = ws]
            /\ timers' = timers \cup {t}
            /\ UNCHANGED settled
  /\ emitted' = {}
  /\ UNCHANGED <<nextTask, isSpeaking, audioVars, sockets, ws, wsConnecting,
                 inbox, pendingMeta, chunkVars, queueVars, cache>>
  /\ UNCHANGED others

\* playAudio(result.audioBuffer) up to its first await: the current source is
\* stopped, an empty buffer throws, a suspended context is resumed first.
SynthOk(t) ==
  /\ tasks[t].pc = "r_synth_ok"
  /\ currentAudioSource' = 0
  /\ audible' = audible \ {currentAudioSource}
  /\ halting' = halting \cup ({currentAudioSource} \cap audible)
  /\ IF tasks[t].audio = EmptyAudio
       THEN tasks' = [tasks EXCEPT ![t].pc = "r_fail", ![t].result = "empty"]
       ELSE \E next \in {"resume", "decode"} : tasks' = [tasks EXCEPT ![t].pc = next]
  /\ emitted' = {}
  /\ UNCHANGED <<nextTask, isSpeaking, sockVars, reqVars, chunkVars, queueVars,
                 cache>>
  /\ UNCHANGED others

\* playAudio after `await decodeAudioData(..)`: the source is made, held and
\* started.
Decoded(t) ==
  /\ tasks[t].pc = "r_decoded"
  /\ tasks' = [tasks EXCEPT ![t].pc = "playing"]
  /\ currentAudioSource' = t
  /\ audible' = audible \cup {t}
  /\ emitted' = {}
  /\ UNCHANGED <<nextTask, isSpeaking, halting, sockVars, reqVars, chunkVars,
                 queueVars, cache>>
  /\ UNCHANGED others

\* speak without its finally block for a call that fails
FinishNoFinally(t, res) ==
  /\ IF tasks[t].kind = "speak"
       THEN /\ isSpeaking' = (isSpeaking /\ res = "fail")
            /\ emitted' = IF res = "ok" THEN {"tts:speaking-ended"} ELSE {}
            /\ tasks' = [tasks EXCEPT ![t] = DoneTask(t, res)]
            /\ UNCHANGED <<nextTask, queueVars, cache, sockets, wsConnecting>>
       ELSE /\ emitted' = IF res = "ok" THEN {"tts:chunk-spoken"} ELSE {}
            /\ ProcessSegmentQueue(audioSegmentQueue,
                                   [tasks EXCEPT ![t] = DoneTask(t, res)])
            /\ UNCHANGED isSpeaking
  /\ UNCHANGED <<audioVars, ws, inbox, sentOn, reqVars, chunkVars>>
  /\ UNCHANGED others

\* The end of the call: speak's finally block, or processSegmentQueue after
\* its try/catch, which goes on with the queue.
Finish(t, res) ==
  /\ IF tasks[t].kind = "speak"
       THEN /\ isSpeaking' = FALSE
            /\ emitted' = {"tts:speaking-ended"}
            /\ tasks' = [tasks EXCEPT ![t] = DoneTask(t, res)]
            /\ UNCHANGED <<nextTask, queueVars, cache, sockets, wsConnecting>>
       ELSE /\ emitted' = IF res = "ok" THEN {"tts:chunk-spoken"} ELSE {}
            /\ ProcessSegmentQueue(audioSegmentQueue,
                                   [tasks EXCEPT ![t] = DoneTask(t, res)])
            /\ UNCHANGED isSpeaking
  /\ UNCHANGED <<audioVars, ws, inbox, sentOn, reqVars, chunkVars>>
  /\ UNCHANGED others

FinishOk(t) == tasks[t].pc = "r_ok" /\ Finish(t, "ok")

\* What the continuation of call t writes with console.error: the catch block
\* of processSegmentQueue logs the error it caught, whatever it is; speak has
\* no catch block.
ConsoleError(t) ==
  IF tasks[t].kind = "queue" /\ tasks[t].pc = "r_fail" THEN {tasks[t].result}
  ELSE {}

\* processSegmentQueue without its try/catch: the failure ends the loop
FinishFailAborts(t) ==
  /\ tasks[t].pc = "r_fail"
  /\ IF tasks[t].kind = "speak"
       THEN Finish(t, "fail")
       ELSE /\ tasks' = [tasks EXCEPT ![t] = DoneTask(t, "fail")]
            /\ emitted' = {}
            /\ UNCHANGED <<nextTask, isSpeaking, audioVars, sockVars, reqVars,
                           chunkVars, queueVars, cache>>
  /\ UNCHANGED others

FinishFail(t) == tasks[t].pc = "r_fail" /\ Finish(t, "fail")

\* ------------------------------------------------------------- environment
\* The debounce timer fires: flushChunkBuffer.
FlushChunkBuffer ==
  /\ Idle
  /\ armed > 0
  /\ armed' = armed - 1
  /\ emitted' = {}
  /\ IF Len(chunkBuffer) = 0
       THEN UNCHANGED <<tasks, nextTask, chunkBuffer, sinceFlush, queueVars,
                        cache, sockets, wsConnecting>>
       ELSE LET segments == splitIntoSegments(chunkBuffer)
                q == audioSegmentQueue \o segments
            IN  /\ Room(Len(q))
                /\ chunkBuffer' = <<>>
                /\ sinceFlush' = <<>>
                /\ IF ~isPlayingQueue
                     THEN ProcessSegmentQueue(q, tasks)
                     ELSE /\ audioSegmentQueue' = q
                          /\ UNCHANGED <<tasks, nextTask, isPlayingQueue, cache,
                                         sockets, wsConnecting>>
  /\ UNCHANGED <<isSpeaking, audioVars, ws, inbox, sentOn, reqVars,
                 chunkBufferTimeout>>
  /\ UNCHANGED others

\* ws.onopen of socket s
OnOpen(s) ==
  /\ Idle
  /\ sockets[s] = "connecting"
  /\ sockets' = [sockets EXCEPT ![s] = "open"]
  /\ ws' = s
  /\ wsConnecting' = 0
  /\ tasks' = [t \in TaskIds |->
                 IF tasks[t].pc = "connect" /\ tasks[t].sock = s
                   THEN [tasks[t] EXCEPT !.pc = "r_connected", !.sock = 0]
                   ELSE tasks[t]]
  /\ emitted' = {}
  /\ UNCHANGED <<nextTask, isSpeaking, audioVars, inbox, sentOn,
                 reqVars, chunkVars, queueVars, cache>>
  /\ UNCHANGED others

\* ws.onerror of socket s, whose connection failed; its close event follows.
OnError(s) ==
  /\ Idle
  /\ sockets[s] = "connecting"
  /\ \E f \in SockIds : sockets[f] = "free"
  /\ sockets' = [sockets EXCEPT ![s] = "failed"]
  /\ wsConnecting' = 0
  /\ tasks' = [t \in TaskIds |->
                 IF tasks[t].pc = "connect" /\ tasks[t].sock = s
                   THEN [tasks[t] EXCEPT !.pc = "r_fail", !.result = "connection",
                                         !.sock = 0]
                   ELSE tasks[t]]
  /\ emitted' = {}
  /\ UNCHANGED <<nextTask, isSpeaking, audioVars, ws, inbox, sentOn,
                 reqVars, chunkVars, queueVars, cache>>
  /\ UNCHANGED others

\* ws.onclose of socket s: after its error event, or when an open connection
\* is lost, and with it what the server had sent and had to answer.
OnClose(s) ==
  /\ \A t \in TaskIds : tasks[t].pc \notin ReadyPcs
  /\ \/ sockets[s] = "failed"
     \/ sockets[s] = "open" /\ Idle
  /\ sockets' = [sockets EXCEPT ![s] = "free"]
  /\ ws' = 0
  /\ wsConnecting' = 0
  /\ inbox' = [inbox EXCEPT ![s] = <<>>]
  /\ sentOn' = [t \in TaskIds |-> IF sentOn[t] = s THEN 0 ELSE sentOn[t]]
  /\ emitted' = {}
  /\ UNCHANGED <<tasks, nextTask, isSpeaking, audioVars, reqVars,
                 chunkVars, queueVars, cache>>
  /\ UNCHANGED others

\* The server answers a request it holds: a result announcement followed by
\* its binary frame, or an error.
ServerAnswer(t) ==
  /\ sentOn[t] # 0
  /\ sentOn' = [sentOn EXCEPT ![t] = 0]
  /\ \E reply \in { <<[type |-> "tts:result", id |-> t, audio |-> NoAudio],
                      [type |-> "binary", id |-> 0, audio |-> t]>>,
                    <<[type |-> "tts:result", id |-> t, audio |-> NoAudio],
                      [type |-> "binary", id |-> 0, audio |-> EmptyAudio]>>,
                    <<[type |-> "tts:error", id |-> t, audio |-> NoAudio]>> } :
        inbox' = [inbox EXCEPT ![sentOn[t]] = @ \o reply]
  /\ emitted' = {}
  /\ UNCHANGED <<tasks, nextTask, isSpeaking, audioVars, sockets, ws,
                 wsConnecting, reqVars, chunkVars, queueVars, cache>>
  /\ UNCHANGED others

\* handleMessage(event) for the next message of socket s
HandleMessage(s) ==
  /\ Idle
  /\ inbox[s] # <<>>
  /\ inbox' = [inbox EXCEPT ![s] = Tail(@)]
  /\ LET msg == Head(inbox[s])
     IN  CASE msg.type = "binary" ->
                /\ pendingMeta' = 0
                /\ IF pendingMeta # 0 /\ pendingMeta \in pendingTTS
                     THEN /\ cache' = CacheAfterSet(tasks[pendingMeta].text, msg.audio)
                          /\ emitted' = {"tts:synthesis-complete"}
                          /\ tasks' = [tasks EXCEPT ![pendingMeta].pc = "r_synth_ok",
                                                    ![pendingMeta].audio = msg.audio]
                          /\ settled' = Settle(pendingMeta)
                          /\ pendingTTS' = pendingTTS \ {pendingMeta}
                     ELSE /\ emitted' = {}
                          /\ UNCHANGED <<cache, tasks, settled, pendingTTS>>
           [] msg.type = "tts:result" ->
                /\ pendingMeta' = msg.id
                /\ emitted' = {}
                /\ UNCHANGED <<cache, tasks, settled, pendingTTS>>
           [] msg.type = "tts:error" ->
                /\ emitted' = {}
                /\ IF msg.id \in pendingTTS
                     THEN /\ tasks' = [tasks EXCEPT ![msg.id].pc = "r_fail",
                                                    ![msg.id].result = "server"]
                          /\ settled' = Settle(msg.id)
                          /\ pendingTTS' = pendingTTS \ {msg.id}
                     ELSE UNCHANGED <<tasks, settled, pendingTTS>>
                /\ UNCHANGED <<cache, pendingMeta>>
  /\ UNCHANGED <<nextTask, isSpeaking, audioVars, sockets, ws, wsConnecting,
                 sentOn, timers, chunkVars, queueVars>>
  /\ UNCHANGED others

\* the timer's callback without its `if (this.pendingTTS.has(id))`
TimeoutUnchecked(t) ==
  /\ Idle
  /\ t \in timers
  /\ timers' = timers \ {t}
  /\ pendingTTS' = pendingTTS \ {t}
  /\ tasks' = [tasks EXCEPT ![t].pc = "r_fail", ![t].result = "timeout"]
  /\ settled' = Settle(t)
  /\ emitted' = {}
  /\ UNCHANGED <<nextTask, isSpeaking, audioVars, sockVars, pendingMeta,
                 chunkVars, queueVars, cache>>
  /\ UNCHANGED others

\* The 30 s timer of request t fires.
Timeout(t) ==
  /\ Idle
  /\ t \in timers
  /\ timers' = timers \ {t}
  /\ IF t \in pendingTTS
       THEN /\ pendingTTS' = pendingTTS \ {t}
            /\ tasks' = [tasks EXCEPT ![t].pc = "r_fail", ![t].result = "timeout"]
            /\ settled' = Settle(t)
       ELSE UNCHANGED <<pendingTTS, tasks, settled>>
  /\ emitted' = {}
  /\ UNCHANGED <<nextTask, isSpeaking, audioVars, sockVars, pendingMeta,
                 chunkVars, queueVars, cache>>
  /\ UNCHANGED others

\* audioContext.resume() resolves, and playAudio goes on to call
\* decodeAudioData.
ResumeDone(t) ==
  /\ Idle
  /\ tasks[t].pc = "resume"
  /\ tasks' = [tasks EXCEPT ![t].pc = "decode"]
  /\ emitted' = {}
  /\ UNCHANGED <<nextTask, isSpeaking, audioVars, sockVars, reqVars, chunkVars,
                 queueVars, cache>>
  /\ UNCHANGED others

\* decodeAudioData resolves, or rejects what it cannot decode.
DecodeDone(t) ==
  /\ Idle
  /\ tasks[t].pc = "decode"
  /\ \/ tasks' = [tasks EXCEPT ![t].pc = "r_decoded"]
     \/ tasks' = [tasks EXCEPT ![t].pc = "r_fail", ![t].result = "decode"]
  /\ emitted' = {}
  /\ UNCHANGED <<nextTask, isSpeaking, audioVars, sockVars, reqVars, chunkVars,
                 queueVars, cache>>
  /\ UNCHANGED others

\* source.onended of source t, which played to its end or was stopped
OnEnded(t) ==
  /\ Idle
  /\ t \in audible \cup halting
  /\ audible' = audible \ {t}
  /\ halting' = halting \ {t}
  /\ currentAudioSource' = 0
  /\ tasks' = [tasks EXCEPT ![t].pc = "r_ok"]
  /\ emitted' = {}
  /\ UNCHANGED <<nextTask, isSpeaking, sockVars, reqVars, chunkVars, queueVars,
                 cache>>
  /\ UNCHANGED others

\* the 'error' listener of source t
OnAudioError(t) ==
  /\ Idle
  /\ t \in audible
  /\ audible' = audible \ {t}
  /\ currentAudioSource' = 0
  /\ tasks' = [tasks EXCEPT ![t].pc = "r_fail", ![t].result = "audio"]
  /\ emitted' = {}
  /\ UNCHANGED <<nextTask, isSpeaking, halting, sockVars, reqVars, chunkVars,
                 queueVars, cache>>
  /\ UNCHANGED others

\* Date.now() moves on: every entry of the cache is one tick older.
Tick ==
  /\ \E i \in 1..Len(cache) : cache[i].age <= cacheTtl
  /\ cache' = [i \in 1..Len(cache) |->
                 [cache[i] EXCEPT !.age = IF @ <= cacheTtl THEN @ + 1 ELSE @]]
  /\ emitted' = {}
  /\ UNCHANGED <<tasks, nextTask, isSpeaking, audioVars, sockVars, reqVars,
                 chunkVars, queueVars>>
  /\ UNCHANGED others

\* The continuations of the async functions (microtasks).
Continue ==
  \/ \E t \in TaskIds : Connected(t)
  \/ \E t \in TaskIds : SynthOk(t)
  \/ \E t \in TaskIds : Decoded(t)
  \/ \E t \in TaskIds : FinishOk(t)
  \/ \E t \in TaskIds : FinishFail(t)

\* The callbacks of the socket, the server behind it, and the request timers.
Channel ==
  \/ \E s \in SockIds : OnOpen(s)
  \/ \E s \in SockIds : OnError(s)
  \/ \E s \in SockIds : OnClose(s)
  \/ \E t \in TaskIds : ServerAnswer(t)
  \/ \E s \in SockIds : HandleMessage(s)
  \/ \E t \in TaskIds : Timeout(t)

\* The callbacks of the audio context and its sources.
Audio ==
  \/ \E t \in TaskIds : ResumeDone(t)
  \/ \E t \in TaskIds : DecodeDone(t)
  \/ \E t \in TaskIds : OnEnded(t)
  \/ \E t \in TaskIds : OnAudioError(t)

Next ==
  \/ \E text \in SpeakTexts : Fits(Calls) /\ Speak(text)
  \/ \E text \in Chunks : Fits(Calls) /\ SpeakChunk(text)
  \/ Stop
  \/ ClearCache
  \/ FlushChunkBuffer /\ Flushed(Calls)
  \/ Continue
  \/ Channel
  \/ Audio
  \/ Tick

Spec == Init /\ [][Next]_vars

\* The streaming scenarios: text arrives through speakChunk alone, within the
\* cache's time to live.
NextQueue ==
  \/ \E text \in Chunks : Fits(Calls) /\ SpeakChunk(text)
  \/ Stop
  \/ FlushChunkBuffer /\ Flushed(Calls)
  \/ Continue
  \/ Channel
  \/ Audio

SpecQueue == Init /\ [][NextQueue]_vars

\* The scenarios of whole utterances: speak calls with one text, within the
\* cache's time to live.
NextSpeak ==
  \/ \E text \in OneText : Fits(Calls) /\ Speak(text)
  \/ Stop
  \/ Continue
  \/ Channel
  \/ Audio

SpecSpeak == Init /\ [][NextSpeak]_vars

\* The same with fair scheduling: a continuation that is ready runs, a timer
\* that is armed fires, the close event of a failed socket follows its error
\* event, a connection attempt comes to its end, and so do the audio context's
\* promises and a source that plays.  The server may stay silent.
FairSpeak ==
  /\ SpecSpeak
  /\ WF_vars(Continue)
  /\ \A t \in TaskIds : WF_vars(Timeout(t))
  /\ \A s \in SockIds : WF_vars(sockets[s] = "failed" /\ OnClose(s))
  /\ \A s \in SockIds : WF_vars(OnOpen(s) \/ OnError(s))
  /\ WF_vars(Audio)

\* Whole utterances, as many as MaxTasks: a call made after a failed
\* connection attempt is among them.
NextRetry ==
  \/ \E text \in OneText : Speak(text)
  \/ Stop
  \/ Continue
  \/ Channel
  \/ Audio

SpecRetry == Init /\ [][NextRetry]_vars

\* The scenarios of the cache: speak calls with two texts, as time goes by.
NextCache ==
  \/ \E text \in SpeakTexts : Fits(Calls) /\ Speak(text)
  \/ Stop
  \/ ClearCache
  \/ Continue
  \/ Channel
  \/ Audio
  \/ Tick

SpecCache == Init /\ [][NextCache]_vars

\* ===================================================== recognition session
\* LocalSTTService.  A call of start() whose awaited promise has settled sits
\* in one of these until its continuation runs.
SttReadyPcs == {"r_connected", "r_refused", "r_granted", "r_denied"}

SttBusy(c) == starts[c].pc \notin {"free", "done"}

SttIdle ==
  /\ \A c \in StartIds : starts[c].pc \notin SttReadyPcs
  /\ \A s \in SockIds : sttSockets[s] # "failed"

SttNeedsSocket == sttWs = 0 /\ sttWsConnecting = 0

SttFreeSock == CHOOSE s \in SockIds : sttSockets[s] = "free"

Ended(c, res) == [FreeStart EXCEPT !.pc = "done", !.result = res]

\* cleanup(): the tracks of the stream are stopped, the three fields nulled.
CapturingAfterCleanup == capturing \ {audioStream}

ReleasedAfterCleanupNone == released

ReleasedAfterCleanup ==
  IF audioStream = 0 THEN released
  ELSE [released EXCEPT ![audioStream] = @ + 1]

\* mediaRecorder.stop() when there is a recorder that is not inactive
RecordingAfterStop == recording \ {mediaRecorder}

\* start() up to `await this.ensureWebSocket()`, or its early return.
StartSTT ==
  /\ ~disposed
  /\ nextStart <= MaxStarts
  /\ nextStart' = nextStart + 1
  /\ sttEmitted' = {}
  /\ IF isListening
       THEN /\ starts' = [starts EXCEPT ![nextStart] = Ended(nextStart, "resolved")]
            /\ UNCHANGED <<sttSockets, sttWsConnecting>>
       ELSE IF sttWs # 0
         THEN /\ starts' = [starts EXCEPT ![nextStart].pc = "r_connected"]
              /\ UNCHANGED <<sttSockets, sttWsConnecting>>
       ELSE IF sttWsConnecting # 0
         THEN /\ starts' = [starts EXCEPT ![nextStart].pc = "connect",
                                          ![nextStart].sock = sttWsConnecting]
              /\ UNCHANGED <<sttSockets, sttWsConnecting>>
       ELSE /\ \E s \in SockIds : sttSockets[s] = "free"
            /\ starts' = [starts EXCEPT ![nextStart].pc = "connect",
                                        ![nextStart].sock = SttFreeSock]
            /\ sttSockets' = [sttSockets EXCEPT ![SttFreeSock] = "connecting"]
            /\ sttWsConnecting' = SttFreeSock
  /\ UNCHANGED <<isListening, sttWs, sessionId, mediaRecorder, audioStream,
                 capturing, recording, released, heardOn, sttSent, disposed>>
  /\ UNCHANGED beside

\* start() after `await this.ensureWebSocket()`: getUserMedia is called.
SttConnected(c) ==
  /\ starts[c].pc = "r_connected"
  /\ starts' = [starts EXCEPT ![c].pc = "device"]
  /\ sttEmitted' = {}
  /\ UNCHANGED <<nextStart, isListening, sttSockets, sttWs, sttWsConnecting,
                 sessionId, mediaRecorder, audioStream, capturing, recording,
                 released, heardOn, sttSent, disposed>>
  /\ UNCHANGED beside

\* start() when ensureWebSocket rejected: the catch block emits and returns.
SttRefused(c) ==
  /\ starts[c].pc = "r_refused"
  /\ starts' = [starts EXCEPT ![c] = Ended(c, "resolved")]
  /\ sttEmitted' = {"stt:error"}
  /\ UNCHANGED <<nextStart, isListening, sttSockets, sttWs, sttWsConnecting,
                 sessionId, mediaRecorder, audioStream, capturing, recording,
                 released, heardOn, sttSent, disposed>>
  /\ UNCHANGED beside

\* start() after getUserMedia resolved: the session id is made, stt:start is
\* sent (send throws on a null socket), the recorder is made and started.
SttGranted(c) ==
  /\ starts[c].pc = "r_granted"
  /\ audioStream' = c
  /\ sessionId' = c
  /\ IF sttWs = 0
       THEN /\ starts' = [starts EXCEPT ![c] = Ended(c, "rejected")]
            /\ sttEmitted' = {}
            /\ UNCHANGED <<mediaRecorder, recording, isListening, heardOn, sttSent>>
       ELSE /\ starts' = [starts EXCEPT ![c] = Ended(c, "resolved")]
            /\ sttSent' = Append(sttSent, [type |-> "stt:start", id |-> c])
            /\ heardOn' = [heardOn EXCEPT ![c] = sttWs]
            /\ mediaRecorder' = c
            /\ recording' = recording \cup {c}
            /\ isListening' = TRUE
            /\ sttEmitted' = {"stt:started"}
  /\ UNCHANGED <<nextStart, sttSockets, sttWs, sttWsConnecting, capturing,
                 released, disposed>>
  /\ UNCHANGED beside

\* start() when getUserMedia rejected: the catch block emits and returns.
SttDenied(c) ==
  /\ starts[c].pc = "r_denied"
  /\ starts' = [starts EXCEPT ![c] = Ended(c, "resolved")]
  /\ sttEmitted' = {"stt:error"}
  /\ UNCHANGED <<nextStart, isListening, sttSockets, sttWs, sttWsConnecting,
                 sessionId, mediaRecorder, audioStream, capturing, recording,
                 released, heardOn, sttSent, disposed>>
  /\ UNCHANGED beside

\* What stop() does to the session: nothing when not listening.
StopSession ==
  IF ~isListening
    THEN /\ sttEmitted' = {}
         /\ UNCHANGED <<isListening, sessionId, mediaRecorder, audioStream,
                        capturing, recording, released, sttSent>>
    ELSE /\ recording' = RecordingAfterStop
         /\ sttSent' = IF sttWs # 0 /\ sessionId # 0
                         THEN Append(sttSent, [type |-> "stt:stop", id |-> sessionId])
                         ELSE sttSent
         /\ capturing' = CapturingAfterCleanup
         /\ released' = ReleasedAfterCleanup
         /\ audioStream' = 0
         /\ mediaRecorder' = 0
         /\ sessionId' = 0
         /\ isListening' = FALSE
         /\ sttEmitted' = {"stt:stopped"}

\* stop()
StopSTT ==
  /\ StopSession
  /\ UNCHANGED <<starts, nextStart, sttSockets, sttWs, sttWsConnecting, heardOn,
                 disposed>>
  /\ UNCHANGED beside

\* dispose(): stop(), then the socket is closed (its close event follows) and
\* both fields nulled.
DisposeSTT ==
  /\ ~disposed
  /\ disposed' = TRUE
  /\ StopSession
  /\ sttSockets' = IF sttWs # 0 THEN [sttSockets EXCEPT ![sttWs] = "closing"]
                   ELSE sttSockets
  /\ sttWs' = 0
  /\ sttWsConnecting' = 0
  /\ UNCHANGED <<starts, nextStart, heardOn>>
  /\ UNCHANGED beside

\* ws.onopen of socket s
SttOnOpen(s) ==
  /\ SttIdle
  /\ sttSockets[s] = "connecting"
  /\ sttSockets' = [sttSockets EXCEPT ![s] = "open"]
  /\ sttWs' = s
  /\ sttWsConnecting' = 0
  /\ starts' = [c \in StartIds |->
                  IF starts[c].pc = "connect" /\ starts[c].sock = s
                    THEN [starts[c] EXCEPT !.pc = "r_connected", !.sock = 0]
                    ELSE starts[c]]
  /\ sttEmitted' = {}
  /\ UNCHANGED <<nextStart, isListening, sessionId, mediaRecorder, audioStream,
                 capturing, recording, released, heardOn, sttSent, disposed>>
  /\ UNCHANGED beside

\* ws.onerror of socket s, whose connection failed; its close event follows.
SttOnError(s) ==
  /\ SttIdle
  /\ sttSockets[s] = "connecting"
  /\ \E f \in SockIds : sttSockets[f] = "free"
  /\ sttSockets' = [sttSockets EXCEPT ![s] = "failed"]
  /\ sttWsConnecting' = 0
  /\ starts' = [c \in StartIds |->
                  IF starts[c].pc = "connect" /\ starts[c].sock = s
                    THEN [starts[c] EXCEPT !.pc = "r_refused", !.sock = 0]
                    ELSE starts[c]]
  /\ sttEmitted' = {}
  /\ UNCHANGED <<nextStart, isListening, sttWs, sessionId, mediaRecorder,
                 audioStream, capturing, recording, released, heardOn, sttSent,
                 disposed>>
  /\ UNCHANGED beside

\* ws.onclose of socket s: after its error event, after close(), or when an
\* open connection is lost.
SttOnClose(s) ==
  /\ \A c \in StartIds : starts[c].pc \notin SttReadyPcs
  /\ \/ sttSockets[s] = "failed"
     \/ sttSockets[s] \in {"open", "closing"} /\ SttIdle
  /\ sttSockets' = [sttSockets EXCEPT ![s] = "free"]
  /\ sttWs' = 0
  /\ sttWsConnecting' = 0
  /\ heardOn' = [c \in StartIds |-> IF heardOn[c] = s THEN 0 ELSE heardOn[c]]
  /\ sttEmitted' = {}
  /\ UNCHANGED <<starts, nextStart, isListening, sessionId, mediaRecorder,
                 audioStream, capturing, recording, released, sttSent, disposed>>
  /\ UNCHANGED beside

\* getUserMedia resolves with the stream of the capture device.
GetUserMediaGranted(c) ==
  /\ SttIdle
  /\ starts[c].pc = "device"
  /\ starts' = [starts EXCEPT ![c].pc = "r_granted"]
  /\ capturing' = capturing \cup {c}
  /\ sttEmitted' = {}
  /\ UNCHANGED <<nextStart, isListening, sttSockets, sttWs, sttWsConnecting,
                 sessionId, mediaRecorder, audioStream, recording, released,
                 heardOn, sttSent, disposed>>
  /\ UNCHANGED beside

\* getUserMedia rejects: no device, or no permission.
GetUserMediaDenied(c) ==
  /\ SttIdle
  /\ starts[c].pc = "device"
  /\ starts' = [starts EXCEPT ![c].pc = "r_denied"]
  /\ sttEmitted' = {}
  /\ UNCHANGED <<nextStart, isListening, sttSockets, sttWs, sttWsConnecting,
                 sessionId, mediaRecorder, audioStream, capturing, recording,
                 released, heardOn, sttSent, disposed>>
  /\ UNCHANGED beside

\* mediaRecorder.onerror of recorder r
RecorderError(r) ==
  /\ SttIdle
  /\ r \in recording
  /\ recording' = recording \ {r}
  /\ isListening' = FALSE
  /\ capturing' = CapturingAfterCleanup
  /\ released' = ReleasedAfterCleanup
  /\ audioStream' = 0
  /\ mediaRecorder' = 0
  /\ sessionId' = 0
  /\ sttEmitted' = {"stt:error"}
  /\ UNCHANGED <<starts, nextStart, sttSockets, sttWs, sttWsConnecting, heardOn,
                 sttSent, disposed>>
  /\ UNCHANGED beside

\* handleMessage for a stt:end-of-speech of session id: autoStop().
EndOfSpeech(id) ==
  /\ SttIdle
  /\ heardOn[id] # 0
  /\ sttSockets[heardOn[id]] = "open"
  /\ IF id = sessionId /\ isListening
       THEN /\ recording' = RecordingAfterStop
            /\ capturing' = CapturingAfterCleanup
            /\ released' = ReleasedAfterCleanup
            /\ audioStream' = 0
            /\ mediaRecorder' = 0
            /\ sessionId' = 0
            /\ isListening' = FALSE
            /\ sttEmitted' = {"stt:stopped"}
       ELSE /\ sttEmitted' = {}
            /\ UNCHANGED <<recording, capturing, released, audioStream,
                           mediaRecorder, sessionId, isListening>>
  /\ UNCHANGED <<starts, nextStart, sttSockets, sttWs, sttWsConnecting, heardOn,
                 sttSent, disposed>>
  /\ UNCHANGED beside

\* The continuations of start()
SttContinue ==
  \/ \E c \in StartIds : SttConnected(c)
  \/ \E c \in StartIds : SttRefused(c)
  \/ \E c \in StartIds : SttGranted(c)
  \/ \E c \in StartIds : SttDenied(c)

\* The callbacks of the socket, the capture device, the recorder and the server
SttEvents ==
  \/ \E s \in SockIds : SttOnOpen(s)
  \/ \E s \in SockIds : SttOnError(s)
  \/ \E s \in SockIds : SttOnClose(s)
  \/ \E c \in StartIds : GetUserMediaGranted(c)
  \/ \E c \in StartIds : GetUserMediaDenied(c)
  \/ \E r \in StartIds : RecorderError(r)
  \/ \E id \in StartIds : EndOfSpeech(id)

NextSTT ==
  \/ StartSTT
  \/ StopSTT
  \/ DisposeSTT
  \/ SttContinue
  \/ SttEvents

SpecSTT == Init /\ [][NextSTT]_vars

\* mediaRecorder.ondataavailable of recorder r with a chunk of the given size:
\* the stt:audio envelope is sent at once, with the session id the service
\* holds now; the binary frame waits for event.data.arrayBuffer().
DataAvailable(r, size) ==
  /\ SttIdle
  /\ r \in recording
  /\ nextChunk <= MaxChunks
  /\ nextChunk' = nextChunk + 1
  /\ IF size > 0 /\ sttWs # 0 /\ sttSockets[sttWs] = "open" /\ sessionId # 0
       THEN /\ sttSent' = Append(sttSent, [type |-> "stt:audio", id |-> sessionId,
                                           chunk |-> nextChunk])
            /\ chunks' = [chunks EXCEPT ![nextChunk] =
                                    [pc |-> "reading", id |-> sessionId]]
       ELSE /\ chunks' = [chunks EXCEPT ![nextChunk].pc = "done"]
            /\ UNCHANGED sttSent
  /\ sttEmitted' = {}
  /\ UNCHANGED <<starts, nextStart, isListening, sttSockets, sttWs,
                 sttWsConnecting, sessionId, mediaRecorder, audioStream,
                 capturing, recording, released, heardOn, disposed>>
  /\ UNCHANGED <<ttsVars, libVars, lastEnvelope>>

\* The callback of event.data.arrayBuffer().then for chunk k: the buffer is
\* sent when there is an open socket.
BufferReady(k) ==
  /\ SttIdle
  /\ chunks[k].pc = "reading"
  /\ chunks' = [chunks EXCEPT ![k].pc = "done"]
  /\ sttSent' = IF sttWs # 0 /\ sttSockets[sttWs] = "open"
                  THEN Append(sttSent, [type |-> "binary", chunk |-> k])
                  ELSE sttSent
  /\ sttEmitted' = {}
  /\ UNCHANGED <<starts, nextStart, isListening, sttSockets, sttWs,
                 sttWsConnecting, sessionId, mediaRecorder, audioStream,
                 capturing, recording, released, heardOn, disposed, nextChunk>>
  /\ UNCHANGED <<ttsVars, libVars, lastEnvelope>>

\* The sizes of the chunks a recorder hands over.
ChunkSizes == {0, 1}

\* The recognition session with the audio its recorders deliver.
NextWire ==
  \/ StartSTT
  \/ StopSTT
  \/ SttContinue
  \/ SttEvents
  \/ \E r \in StartIds : \E size \in ChunkSizes : DataAvailable(r, size)
  \/ \E k \in ChunkIds : BufferReady(k)

SpecWire == Init /\ [][NextWire]_vars

\* handleMessage's `if (msg.id !== this.sessionId) return` taken as a test that
\* lets every envelope through.
DispatchedAlways(id) == TRUE

\* handleMessage: an envelope gets past `if (msg.id !== this.sessionId) return`.
Dispatched(id) == id = sessionId

\* The envelopes that carry a transcript or an error, and the event each is
\* emitted as.
EnvelopeEvent ==
  [interim |-> "stt:interim-transcript", final |-> "stt:final-transcript",
   error |-> "stt:error"]

EnvelopeTypes == {"interim", "final", "error"}

\* handleMessage for a stt:interim, stt:final or stt:error envelope of session
\* id, which the server sends on the socket that carried the session's start.
SttEnvelope(id, type) ==
  /\ SttIdle
  /\ heardOn[id] # 0
  /\ sttSockets[heardOn[id]] = "open"
  /\ sttEmitted' = IF Dispatched(id) THEN {EnvelopeEvent[type]} ELSE {}
  /\ lastEnvelope' = [id |-> id, type |-> type, session |-> sessionId]
  /\ UNCHANGED <<sttVarsButEmitted, chunks, nextChunk>>
  /\ UNCHANGED <<ttsVars, libVars>>

\* The recognition session with the envelopes of the server.
NextHear ==
  \/ StartSTT
  \/ StopSTT
  \/ DisposeSTT
  \/ SttContinue
  \/ SttEvents
  \/ \E id \in StartIds, type \in EnvelopeTypes : SttEnvelope(id, type)

SpecHear == Init /\ [][NextHear]_vars

\* The speech orchestrator and the recognition session of one application:
\* whole utterances, and the session beside them.
NextBoth ==
  \/ \E text \in OneText : Fits(SoloCalls) /\ Speak(text)
  \/ Stop
  \/ Continue
  \/ Channel
  \/ Audio
  \/ StartSTT
  \/ StopSTT
  \/ DisposeSTT
  \/ SttContinue
  \/ SttEvents

SpecBoth == Init /\ [][NextBoth]_vars

\* =========================================================== TTSCache alone
\* A TTSCache exercised directly: get, set and clear on (text, voice) pairs,
\* with the clock advancing between the calls.
StoreTexts == { <<"a">>, <<"b">> }
StoreVoices == { <<"v">>, <<"w">> }
StoreAudio == {1}

exceptStore == <<ttsVars, sttVars, wireVars, splitVars, visVars, busVars, animVars>>

makeKey(text, voice) == voice \o <<":">> \o text

KeyIndex(m, key) == {i \in 1..Len(m) : m[i].key = key}

KeysOf(m) == {m[i].key : i \in 1..Len(m)}

\* What TTSCache.get returns from the Map m: nothing for a missing or an
\* expired entry, else the entry.
MapGet(m, key) ==
  IF KeyIndex(m, key) = {} THEN <<>>
  ELSE LET e == m[CHOOSE i \in KeyIndex(m, key) : TRUE]
       IN  IF e.age > cacheTtl THEN <<>> ELSE <<e>>

\* get that leaves an expired entry in the Map
MapAfterGetKeepsExpired(m, key) == m

\* The Map after TTSCache.get: an expired entry is deleted on the way.
MapAfterGet(m, key) ==
  IF KeyIndex(m, key) # {} /\ m[CHOOSE i \in KeyIndex(m, key) : TRUE].age > cacheTtl
    THEN RemoveAt(m, CHOOSE i \in KeyIndex(m, key) : TRUE)
    ELSE m

\* set without the eviction at capacity
MapAfterSetKeepsAll(m, maxSize, key, audio) ==
  LET e == [key |-> key, audio |-> audio, age |-> 0]
  IN  IF KeyIndex(m, key) = {} THEN Append(m, e)
      ELSE [m EXCEPT ![CHOOSE i \in KeyIndex(m, key) : TRUE] = e]

\* set that evicts the entry that is not the newest one
MapAfterSetEvictsLast(m, maxSize, key, audio) ==
  LET c1 == IF Len(m) >= maxSize /\ Len(m) > 0 THEN SubSeq(m, 1, Len(m) - 1) ELSE m
      e  == [key |-> key, audio |-> audio, age |-> 0]
  IN  IF KeyIndex(c1, key) = {} THEN Append(c1, e)
      ELSE [c1 EXCEPT ![CHOOSE i \in KeyIndex(c1, key) : TRUE] = e]

\* The Map after TTSCache.set: at capacity the first key of the Map is
\* deleted, then Map.set replaces the value of a key in place or appends a
\* new key; the timestamp is now.
MapAfterSet(m, maxSize, key, audio) ==
  LET c1 == IF Len(m) >= maxSize /\ Len(m) > 0 THEN Tail(m) ELSE m
      e  == [key |-> key, audio |-> audio, age |-> 0]
  IN  IF KeyIndex(c1, key) = {} THEN Append(c1, e)
      ELSE [c1 EXCEPT ![CHOOSE i \in KeyIndex(c1, key) : TRUE] = e]

\* new TTSCache(maxSize, ttlMs) with maxSize >= 1.
StoreInit ==
  /\ store = <<>>
  /\ storeMax \in 1..MaxStore
  /\ got = <<>>
  /\ storeLog = NoCall

StoreGet(text, voice) ==
  LET key == makeKey(text, voice)
  IN  /\ got' = MapGet(store, key)
      /\ store' = MapAfterGet(store, key)
      /\ storeLog' = [op |-> "get", key |-> key, before |-> store]
      /\ UNCHANGED <<storeMax, exceptStore>>

StoreSet(text, voice, audio) ==
  LET key == makeKey(text, voice)
  IN  /\ store' = MapAfterSet(store, storeMax, key, audio)
      /\ storeLog' = [op |-> "set", key |-> key, before |-> store]
      /\ UNCHANGED <<storeMax, got, exceptStore>>

StoreClear ==
  /\ store' = <<>>
  /\ storeLog' = [op |-> "clear", key |-> <<>>, before |-> store]
  /\ UNCHANGED <<storeMax, got, exceptStore>>

\* Date.now() advances by one tick; an age beyond the TTL is not counted on.
StoreTick ==
  /\ \E i \in 1..Len(store) : store[i].age <= cacheTtl
  /\ store' = [i \in 1..Len(store) |->
                 [store[i] EXCEPT !.age = IF @ <= cacheTtl THEN @ + 1 ELSE @]]
  /\ storeLog' = [op |-> "tick", key |-> <<>>, before |-> store]
  /\ UNCHANGED <<storeMax, got, exceptStore>>

NextStore ==
  \/ \E text \in StoreTexts, voice \in StoreVoices : StoreGet(text, voice)
  \/ \E text \in StoreTexts, voice \in StoreVoices, audio \in StoreAudio :
       StoreSet(text, voice, audio)
  \/ StoreClear
  \/ StoreTick

\* Both services idle, the other library objects unused.
InitStore ==
  /\ TtsInit /\ SttInit /\ AnimIdle
  /\ SplitIdle /\ VisIdle /\ BusIdle /\ StoreInit

SpecStore == InitStore /\ [][NextStore]_vars

\* ================================================== splitIntoSegments alone
\* splitIntoSegments called once on a text, under the default configuration
\* or under a small length cap.
SplitChars == {"a", " ", ".", ","}

RECURSIVE TextsUpTo(_, _)
TextsUpTo(chars, n) ==
  IF n = 0 THEN { <<>> }
  ELSE LET shorter == TextsUpTo(chars, n - 1)
       IN  shorter \cup {Append(t, c) : t \in shorter, c \in chars}

SplitConfigs == { <<maxSegmentLength, minSplitIndex>>, <<SmallCap, SmallMin>> }

exceptSplit == <<ttsVars, sttVars, wireVars, storeVars, visVars, busVars, animVars>>

SplitInit ==
  /\ splitIn \in TextsUpTo(SplitChars, MaxText)
  /\ \E cfg \in SplitConfigs : splitCap = cfg[1] /\ splitMin = cfg[2]
  /\ splitOut = <<>>
  /\ splitDone = FALSE
  /\ loopRemaining = <<>>
  /\ loopSegments = <<>>

SplitApply ==
  /\ ~splitDone
  /\ splitOut' = SplitWith(splitIn, splitCap, splitMin)
  /\ splitDone' = TRUE
  /\ UNCHANGED <<splitIn, splitCap, splitMin, loopRemaining, loopSegments,
                 exceptSplit>>

NextSplit == SplitApply

\* Both services idle, the other library objects unused.
InitSplit ==
  /\ TtsInit /\ SttInit /\ AnimIdle
  /\ StoreIdle /\ VisIdle /\ BusIdle /\ SplitInit

SpecSplit == InitSplit /\ [][NextSplit]_vars

\* splitIntoSegments run one iteration of its while loop at a time.
\* How many characters of rem one iteration takes off its front: the match
\* of the sentence pattern, else of the phrase pattern, else the index of the
\* last space within the cap when rem is longer than the cap and that index
\* is beyond the minimum, else all of it.
CutAt(rem, maxLen, minIdx) ==
  LET sm == MatchLen(rem, {".", "!", "?"})
      pm == MatchLen(rem, {";", ","})
      si == LastIndexOfSpace(rem, maxLen)
  IN  IF sm > 0 THEN sm
      ELSE IF pm > 0 THEN pm
      ELSE IF Len(rem) > maxLen /\ si > minIdx THEN si
      ELSE Len(rem)

\* The segment one iteration pushes: the front, trimmed, or rem as it is.
IterSegment(rem, maxLen, minIdx) ==
  LET cut == CutAt(rem, maxLen, minIdx)
  IN  IF cut = Len(rem) /\ MatchLen(rem, {".", "!", "?"}) = 0
                         /\ MatchLen(rem, {";", ","}) = 0
        THEN rem
        ELSE Trim(SubSeq(rem, 1, cut))

\* What an iteration would leave were the rest not trimmed.
IterRestUntrimmed(rem, maxLen, minIdx) == Slice(rem, CutAt(rem, maxLen, minIdx))

\* What one iteration leaves in `remaining`: the rest, trimmed.
IterRest(rem, maxLen, minIdx) == Trim(Slice(rem, CutAt(rem, maxLen, minIdx)))

\* The call has reached its loop: remaining = text.trim(), segments = [].
LoopInit ==
  /\ splitIn \in TextsUpTo(SplitChars, MaxText)
  /\ \E cfg \in SplitConfigs : splitCap = cfg[1] /\ splitMin = cfg[2]
  /\ splitOut = <<>>
  /\ splitDone = FALSE
  /\ loopRemaining = Trim(splitIn)
  /\ loopSegments = <<>>

\* One iteration of `while (remaining.length > 0)`
SplitIterate ==
  /\ ~splitDone
  /\ Len(loopRemaining) > 0
  /\ loopSegments' = Append(loopSegments, IterSegment(loopRemaining, splitCap, splitMin))
  /\ loopRemaining' = IterRest(loopRemaining, splitCap, splitMin)
  /\ UNCHANGED <<splitIn, splitOut, splitDone, splitCap, splitMin, exceptSplit>>

\* The loop is left: return segments.filter((s) => s.length > 0)
SplitReturn ==
  /\ ~splitDone
  /\ Len(loopRemaining) = 0
  /\ splitOut' = SelectSeq(loopSegments, LAMBDA seg : Len(seg) > 0)
  /\ splitDone' = TRUE
  /\ UNCHANGED <<splitIn, splitCap, splitMin, loopRemaining, loopSegments,
                 exceptSplit>>

NextLoop == SplitIterate \/ SplitReturn

InitLoop ==
  /\ TtsInit /\ SttInit /\ AnimIdle
  /\ StoreIdle /\ VisIdle /\ BusIdle /\ LoopInit

SpecLoop == InitLoop /\ [][NextLoop]_vars

\* The call runs on: an iteration that can be made is made, and so the return.
FairLoop == SpecLoop /\ WF_vars(SplitIterate) /\ WF_vars(SplitReturn)

\* ====================================================== textToVisemes alone
\* textToVisemes called on a text, with or without a duration, and called
\* again with the same arguments.
VisChars == {"a", "A", "u", "t", "h", " "}

\* The duration argument left out.
Auto == -1

\* The duration argument, in milliseconds.
VisHints == {Auto, 1000, 250}

exceptVis == <<ttsVars, sttVars, wireVars, splitVars, storeVars, busVars, animVars>>

PHONEME_TO_VISEME ==
  [p |-> "PP", b |-> "PP", m |-> "PP", f |-> "FF", v |-> "FF", th |-> "TH",
   t |-> "DD", d |-> "DD", k |-> "kk", g |-> "kk", ch |-> "CH", j |-> "CH",
   sh |-> "CH", zh |-> "CH", s |-> "SS", z |-> "SS", n |-> "nn", ng |-> "nn",
   r |-> "RR", l |-> "RR", w |-> "ou", y |-> "ih", a |-> "aa", e |-> "E",
   i |-> "ih", o |-> "oh", u |-> "ou", h |-> "sil", x |-> "kk", q |-> "kk",
   c |-> "kk"]

VOWEL_COMBINATIONS ==
  [ee |-> "ih", ea |-> "ih", oo |-> "ou", ou |-> "ou", ow |-> "ou", ai |-> "E",
   ay |-> "E", ei |-> "E", ey |-> "E", oa |-> "oh", oe |-> "oh", ie |-> "ih",
   oi |-> "oh", oy |-> "oh", au |-> "aa", aw |-> "aa"]

\* String.prototype.toLowerCase on one character
toLowerCase(c) ==
  IF c = "A" THEN "a" ELSE IF c = "U" THEN "u" ELSE IF c = "T" THEN "t"
  ELSE IF c = "H" THEN "h" ELSE c

\* getVisemeForChar; nextChar is "" when there is none.
getVisemeForChar(char, nextChar) ==
  LET lower == toLowerCase(char)
      digraph == lower \o toLowerCase(nextChar)
  IN  IF nextChar # "" /\ digraph \in DOMAIN VOWEL_COMBINATIONS
        THEN [viseme |-> VOWEL_COMBINATIONS[digraph], consumed |-> 2]
      ELSE IF nextChar # "" /\ digraph \in DOMAIN PHONEME_TO_VISEME
        THEN [viseme |-> PHONEME_TO_VISEME[digraph], consumed |-> 2]
      ELSE IF lower \in DOMAIN PHONEME_TO_VISEME
        THEN [viseme |-> PHONEME_TO_VISEME[lower], consumed |-> 1]
      ELSE [viseme |-> "sil", consumed |-> 1]

\* First pass of textToVisemes from the 1-based position i on.
RECURSIVE FirstPass(_, _)
FirstPass(text, i) ==
  IF i > Len(text) THEN <<>>
  ELSE LET r == getVisemeForChar(text[i], IF i + 1 <= Len(text) THEN text[i + 1] ELSE "")
       IN  <<r.viseme>> \o FirstPass(text, i + r.consumed)

\* The weight of a viseme, in hundredths.
BaseWeight(viseme) ==
  IF viseme = "sil" THEN 0
  ELSE IF viseme \in {"aa", "oh", "ou"} THEN 100
  ELSE IF viseme \in {"E", "ih"} THEN 80
  ELSE IF viseme \in {"PP", "FF"} THEN 60
  ELSE 70

\* Second pass of textToVisemes: timing and weights.
SecondPass(chars, timePerViseme) ==
  [idx \in 1..Len(chars) |->
     LET viseme == chars[idx]
         prevViseme == IF idx = 1 THEN "sil" ELSE chars[idx - 1]
     IN  [name |-> viseme,
          weight |-> IF viseme = prevViseme /\ viseme # "sil"
                       THEN (BaseWeight(viseme) * 7) \div 10
                       ELSE BaseWeight(viseme),
          duration |-> timePerViseme]]

\* The silence textToVisemes puts before and after.
Padded(visemes) ==
  LET v1 == IF Len(visemes) > 0 /\ visemes[1].name # "sil"
              THEN <<[name |-> "sil", weight |-> 0, duration |-> leadSilence * TimeScale]>>
                     \o visemes
              ELSE visemes
  IN  IF Len(v1) > 0 /\ v1[Len(v1)].name # "sil"
        THEN Append(v1, [name |-> "sil", weight |-> 0, duration |-> tailSilence * TimeScale])
        ELSE v1

\* duration ?? text.length * 0.08, in milliseconds
TotalDuration(text, hint) == IF hint = Auto THEN Len(text) * msPerChar ELSE hint

\* textToVisemes past its cache lookup; at least one viseme comes out of a
\* text that is not empty.
Computed(text, hint) ==
  LET chars == FirstPass(text, 1)
  IN  Padded(SecondPass(chars, (TotalDuration(text, hint) * TimeScale) \div Len(chars)))

CachedAt(text, hint) ==
  {i \in 1..Len(visemeCache) : visemeCache[i].text = text /\ visemeCache[i].hint = hint}

\* What textToVisemes returns.
textToVisemes(text, hint) ==
  IF Len(Trim(text)) = 0 THEN <<>>
  ELSE IF CachedAt(text, hint) # {}
    THEN visemeCache[CHOOSE i \in CachedAt(text, hint) : TRUE].visemes
  ELSE Computed(text, hint)

\* The module's cache after textToVisemes: untouched by an early return or a
\* hit, else setCachedVisemes.
CacheAfterVisemes(text, hint) ==
  IF Len(Trim(text)) = 0 \/ CachedAt(text, hint) # {} THEN visemeCache
  ELSE LET c1 == IF Len(visemeCache) >= VISEME_CACHE_MAX_SIZE
                   THEN Tail(visemeCache) ELSE visemeCache
       IN  Append(c1, [text |-> text, hint |-> hint, visemes |-> Computed(text, hint)])

VisInit ==
  /\ visText \in TextsUpTo(VisChars, MaxVisText)
  /\ visHint \in VisHints
  /\ visOut = <<>>
  /\ visDone = FALSE
  /\ visemeCache = <<>>
  /\ visCalls = 0

VisApply ==
  /\ visCalls < MaxVisCalls
  /\ visOut' = textToVisemes(visText, visHint)
  /\ visemeCache' = CacheAfterVisemes(visText, visHint)
  /\ visDone' = TRUE
  /\ visCalls' = visCalls + 1
  /\ UNCHANGED <<visText, visHint, exceptVis>>

\* The duration field of the TTSResult synthesize returns for a text, in
\* milliseconds; its visemes are textToVisemes(text) with no duration given.
ResultDuration(text) == Len(text) * durationMultiplier

NextVisemes == VisApply

\* Both services idle, the other library objects unused.
InitVisemes ==
  /\ TtsInit /\ SttInit /\ AnimIdle
  /\ SplitIdle /\ StoreIdle /\ BusIdle /\ VisInit

SpecVisemes == InitVisemes /\ [][NextVisemes]_vars

\* ========================================================== event bus alone
\* An event bus made by createEventBus, with handlers that return and
\* handlers that throw.
exceptBus == <<ttsVars, sttVars, wireVars, splitVars, storeVars, visVars, animVars>>

\* Set.prototype.add and Set.prototype.delete on a Set kept in insertion order
SetAdd(hs, h) == IF \E i \in 1..Len(hs) : hs[i] = h THEN hs ELSE Append(hs, h)

SetDelete(hs, h) == SelectSeq(hs, LAMBDA x : x # h)

\* forEach over the handlers with no try/catch around the call: the first
\* exception ends the loop and leaves emit.
RECURSIVE DeliveryNoCatch(_)
DeliveryNoCatch(hs) ==
  IF hs = <<>> THEN [called |-> <<>>, escaped |-> FALSE]
  ELSE IF Head(hs) \in throwing THEN [called |-> <<Head(hs)>>, escaped |-> TRUE]
  ELSE LET rest == DeliveryNoCatch(Tail(hs))
       IN  [called |-> <<Head(hs)>> \o rest.called, escaped |-> rest.escaped]

\* handlers.forEach in emit: each handler is called inside its own try/catch,
\* which logs what it threw and goes on to the next handler.
RECURSIVE Delivery(_)
Delivery(hs) ==
  IF hs = <<>> THEN [called |-> <<>>, escaped |-> FALSE]
  ELSE LET rest == Delivery(Tail(hs))
       IN  [called |-> <<Head(hs)>> \o rest.called, escaped |-> rest.escaped]

\* What a handler or a wrapper calls in the end.
HandlerOf(x) == IF x \in HandlerIds THEN x ELSE wrapped[x].h

BusInit ==
  /\ BusFresh
  /\ throwing \in SUBSET HandlerIds
  /\ emitting = {}

\* What no method of the bus changes, and what only emit() changes.
busFixed == <<throwing, emitting, exceptBus>>
busLast == <<called, escaped, delivered, lastEmit>>

BusOn(e, h) ==
  /\ listeners' = [listeners EXCEPT ![e] = SetAdd(@, h)]
  /\ subs' = subs \cup {<<e, h>>}
  /\ UNCHANGED <<wrapped, busLast, busFixed>>

\* off(event, handler); the caller expects every subscription of the handler
\* to the event to be gone.
BusOff(e, h) ==
  /\ listeners' = [listeners EXCEPT ![e] = SetDelete(@, h)]
  /\ subs' = {sb \in subs : ~(sb[1] = e /\ HandlerOf(sb[2]) = h)}
  /\ UNCHANGED <<wrapped, busLast, busFixed>>

BusRemoveAllListeners ==
  /\ listeners' = [e \in BusEvents |-> <<>>]
  /\ subs' = {}
  /\ UNCHANGED <<wrapped, busLast, busFixed>>

\* emit(event) when no handler calls back into the bus.
BusEmit(e) ==
  /\ called' = Delivery(listeners[e]).called
  /\ escaped' = Delivery(listeners[e]).escaped
  /\ lastEmit' = e
  /\ UNCHANGED <<listeners, wrapped, delivered, subs, busFixed>>

NextBus ==
  \/ \E e \in BusEvents, h \in HandlerIds : BusOn(e, h)
  \/ \E e \in BusEvents, h \in HandlerIds : BusOff(e, h)
  \/ BusRemoveAllListeners
  \/ \E e \in BusEvents : BusEmit(e)

\* Both services idle, the other library objects unused.
InitBus ==
  /\ TtsInit /\ SttInit /\ AnimIdle
  /\ SplitIdle /\ StoreIdle /\ VisIdle /\ BusInit

SpecBus == InitBus /\ [][NextBus]_vars

\* --------------------------------------------- once, and emit inside emit
\* The same bus with once() subscriptions and with handlers that emit the
\* event they are handling once more (one time per outer emit).
FreeWrap == CHOOSE w \in WrapIds : wrapped[w] = NoWrap

\* once() wrapper that never takes itself off
AfterWrapperKept(hs, x) == hs

\* The Set after the first statement of a once() wrapper, this.off(event,
\* wrappedHandler); a plain handler leaves the Set alone.
AfterWrapperOff(hs, x) == IF x \in WrapIds THEN SetDelete(hs, x) ELSE hs

\* How many of the first n entries of hs are still in now.
Surviving(hs, n, now) ==
  Cardinality({i \in 1..n : \E j \in 1..Len(now) : now[j] = hs[i]})

\* handlers.forEach in emit from the entry after position done on: each entry
\* is called inside try/catch; a wrapper takes itself off and calls its
\* handler; a handler that emits runs a whole forEach over the same Set before
\* it returns or throws. Entries deleted on the way are not visited.
RECURSIVE ForEach(_, _, _, _)
ForEach(hs, done, log, ready) ==
  IF done >= Len(hs) THEN [hs |-> hs, log |-> log, ready |-> ready]
  ELSE
    LET x == hs[done + 1]
        h == HandlerOf(x)
        h1 == AfterWrapperOff(hs, x)
        inner == IF h \in ready
                   THEN ForEach(h1, 0, Append(log, x), ready \ {h})
                   ELSE [hs |-> h1, log |-> Append(log, x), ready |-> ready]
    IN  ForEach(inner.hs, Surviving(hs, done + 1, inner.hs), inner.log, inner.ready)

Times(log, x) == Cardinality({i \in 1..Len(log) : log[i] = x})

\* once(event, handler): a new wrapper is subscribed with on().
BusOnce(e, h) ==
  /\ \E w \in WrapIds : wrapped[w] = NoWrap
  /\ wrapped' = [wrapped EXCEPT ![FreeWrap] = [event |-> e, h |-> h]]
  /\ listeners' = [listeners EXCEPT ![e] = SetAdd(@, FreeWrap)]
  /\ subs' = subs \cup {<<e, FreeWrap>>}
  /\ UNCHANGED <<busLast, busFixed>>

\* The function on() or once() returned is called: off(event, x) for the
\* handler or the wrapper it was made for.
BusUnsubscribe(e, x) ==
  /\ x \in WrapIds => wrapped[x].event = e
  /\ listeners' = [listeners EXCEPT ![e] = SetDelete(@, x)]
  /\ subs' = subs \ {<<e, x>>}
  /\ UNCHANGED <<wrapped, busLast, busFixed>>

\* emit(event) with handlers that call back into the bus.
BusEmitDeep(e) ==
  LET r == ForEach(listeners[e], 0, <<>>, emitting)
  IN  /\ listeners' = [listeners EXCEPT ![e] = r.hs]
      /\ called' = r.log
      /\ escaped' = FALSE
      /\ lastEmit' = e
      /\ delivered' = [w \in WrapIds |-> Min({2, delivered[w] + Times(r.log, w)})]
      /\ subs' = {sb \in subs : ~(sb[1] = e /\ sb[2] \in WrapIds /\ Times(r.log, sb[2]) > 0)}
      /\ UNCHANGED <<wrapped, busFixed>>

\* The event and the handlers that take part when once() is in play.
OnceEvents == {"stt:stopped"}
OnceHandlers == 1..MaxOnceHandlers

InitOnce ==
  /\ TtsInit /\ SttInit /\ SplitIdle /\ StoreIdle /\ VisIdle /\ AnimIdle
  /\ BusFresh
  /\ throwing \in SUBSET OnceHandlers
  /\ emitting \in SUBSET OnceHandlers

NextOnce ==
  \/ \E e \in OnceEvents, h \in OnceHandlers : BusOn(e, h)
  \/ \E e \in OnceEvents, h \in OnceHandlers : BusOff(e, h)
  \/ \E e \in OnceEvents, h \in OnceHandlers : BusOnce(e, h)
  \/ \E e \in OnceEvents, x \in OnceHandlers \cup WrapIds : BusUnsubscribe(e, x)
  \/ BusRemoveAllListeners
  \/ \E e \in OnceEvents : BusEmitDeep(e)

SpecOnce == InitOnce /\ [][NextOnce]_vars

\* ==================================================== AnimationManager alone
\* An AnimationManager whose queueAnimations, clearQueue and dispose are
\* called from outside and from inside the onPlay callback, against a clock
\* that ticks every msPerTick.
exceptAnim == <<ttsVars, sttVars, wireVars, splitVars, storeVars, visVars, busVars>>

AnimNames == {"headNod", "idle"}

\* The trigger lists queueAnimations is called with.
AnimLists == { <<>>, <<"idle">>, <<"headNod", "idle">> }

\* What a subscriber to 'avatar:animation-started' does from inside onPlay.
Reactions == {"none", "requeue", "clear", "dispose"}

\* The duration registry, in milliseconds.
durations ==
  [idle |-> 3000, modelPose |-> 3000, greeting |-> 3000, peace |-> 2500,
   shoot |-> 2500, spin |-> 4000, squat |-> 3000, walking |-> 4000,
   hipHopDancing |-> 5000, punch |-> 2000, bowing |-> 3000, waving |-> 3000,
   headNod |-> 1500, shakingHeadNo |-> 1500, thumbsUp |-> 2000,
   thinking |-> 3000, salute |-> 2500, singing |-> 5000]

getDuration(name) == IF name \in DOMAIN durations THEN durations[name] ELSE 3000

\* The AnimationManager as one value.
AnimNow ==
  [queues |-> animQueues, next |-> nextQueue, timer |-> animTimer,
   held |-> queueTimeouts, current |-> currentAction, playing |-> animPlaying,
   mixer |-> mixer, actions |-> actions]

\* clearQueue: every timeout in queueTimeouts is cleared; whatever was queued
\* before counts as cancelled from here on.
clearQueue(m) ==
  [m EXCEPT !.timer = [q \in QueueIds |-> IF q \in m.held THEN NoTimer ELSE m.timer[q]],
            !.held = {},
            !.queues = [q \in QueueIds |->
                          IF m.queues[q].pc = "free" THEN m.queues[q]
                          ELSE [m.queues[q] EXCEPT !.cancelled = TRUE]]]

\* play that starts the new action and leaves the current one playing
playNoFade(m, name) ==
  IF ~m.mixer \/ name \notin m.actions THEN m
  ELSE [m EXCEPT !.playing = @ \cup {name}, !.current = name]

\* play(name): nothing without a mixer or for a name that is not loaded; else
\* the current action is cross-faded out and the new one becomes current.
play(m, name) ==
  IF ~m.mixer \/ name \notin m.actions THEN m
  ELSE [m EXCEPT !.playing = IF m.current # "null" /\ m.current # name
                               THEN (@ \ {m.current}) \cup {name}
                               ELSE @ \cup {name},
                 !.current = name]

dispose(m) ==
  [clearQueue(m) EXCEPT !.actions = {}, !.current = "null", !.mixer = FALSE]

onComplete(m, q) ==
  [m EXCEPT !.queues[q].completes = Min({2, @ + 1}), !.queues[q].pc = "done"]

RECURSIVE playNext(_, _)
RECURSIVE onPlay(_, _)
RECURSIVE queueAnimations(_, _, _, _, _)

\* queueAnimations(triggers, onPlay, onComplete); react, reactAt and again
\* say what onPlay will do: at which trigger, and with which new list.
queueAnimations(m, trigs, react, reactAt, again) ==
  LET q == m.next
      c == clearQueue(m)
      m1 == [c EXCEPT !.next = q + 1,
                      !.queues[q] = [FreeQueue EXCEPT !.triggers = trigs, !.pc = "live",
                                                      !.react = react, !.reactAt = reactAt,
                                                      !.again = again]]
  IN  IF Len(trigs) = 0 THEN onComplete(m1, q) ELSE playNext(m1, q)

\* The onPlay callback of call q for the trigger at its index.
onPlay(m, q) ==
  LET Q == m.queues[q]
      m1 == [m EXCEPT !.queues[q].plays = Append(@, Q.triggers[Q.index + 1]),
                      !.queues[q].since = 0]
  IN  IF Q.react = "none" \/ Q.index # Q.reactAt THEN m1
      ELSE IF Q.react = "clear" THEN clearQueue(m1)
      ELSE IF Q.react = "dispose" THEN dispose(m1)
      ELSE queueAnimations(m1, Q.again, "none", 0, <<>>)

\* playNext of call q: onComplete past the last trigger, else play, onPlay,
\* then setTimeout for the duration, pushed on queueTimeouts.
playNext(m, q) ==
  LET Q == m.queues[q]
  IN  IF Q.index >= Len(Q.triggers) THEN onComplete(m, q)
      ELSE LET name == Q.triggers[Q.index + 1]
               m3 == onPlay(play(m, name), q)
           IN  [m3 EXCEPT !.timer[q] = getDuration(name) \div msPerTick,
                          !.held = @ \cup {q}]

\* The AnimationManager becomes r.
Becomes(r) ==
  /\ animQueues' = r.queues
  /\ nextQueue' = r.next
  /\ animTimer' = r.timer
  /\ queueTimeouts' = r.held
  /\ currentAction' = r.current
  /\ animPlaying' = r.playing
  /\ mixer' = r.mixer
  /\ actions' = r.actions
  /\ UNCHANGED exceptAnim

AnimInit ==
  /\ animQueues = [q \in QueueIds |-> FreeQueue]
  /\ nextQueue = 1
  /\ animTimer = [q \in QueueIds |-> NoTimer]
  /\ queueTimeouts = {}
  /\ currentAction = "null"
  /\ animPlaying = {}
  /\ mixer = TRUE
  /\ actions \in {AnimNames, {"idle"}}

QueueAnimations(trigs, react, reactAt, again) ==
  /\ nextQueue + (IF react = "requeue" THEN 1 ELSE 0) <= MaxQueues
  /\ react # "none" => reactAt < Len(trigs)
  /\ react = "none" => reactAt = 0
  /\ react # "requeue" => again = <<>>
  /\ Becomes(queueAnimations(AnimNow, trigs, react, reactAt, again))

ClearQueue == Becomes(clearQueue(AnimNow))

AnimDispose ==
  /\ mixer
  /\ Becomes(dispose(AnimNow))

\* The timeout of call q is due: index++; playNext().
TimerFire(q) ==
  /\ animTimer[q] = 0
  /\ Becomes(playNext([AnimNow EXCEPT !.timer[q] = NoTimer, !.held = @ \ {q},
                                       !.queues[q].index = @ + 1], q))

\* One tick of the clock, when no timeout is due.
AnimTick ==
  /\ \E q \in QueueIds : animTimer[q] > 0
  /\ \A q \in QueueIds : animTimer[q] # 0
  /\ animTimer' = [q \in QueueIds |-> IF animTimer[q] > 0 THEN animTimer[q] - 1 ELSE animTimer[q]]
  /\ animQueues' = [q \in QueueIds |->
                      IF animQueues[q].pc = "live"
                        THEN [animQueues[q] EXCEPT !.since = Min({MaxDur, @ + 1})]
                        ELSE animQueues[q]]
  /\ UNCHANGED <<nextQueue, queueTimeouts, currentAction, animPlaying, mixer, actions,
                 exceptAnim>>

NextAnim ==
  \/ \E trigs \in AnimLists, react \in Reactions, reactAt \in 0..1, again \in AnimLists :
       QueueAnimations(trigs, react, reactAt, again)
  \/ ClearQueue
  \/ AnimDispose
  \/ \E q \in QueueIds : TimerFire(q)
  \/ AnimTick

InitAnim ==
  /\ TtsInit /\ SttInit /\ SplitIdle /\ StoreIdle /\ VisIdle /\ BusIdle
  /\ AnimInit

SpecAnim == InitAnim /\ [][NextAnim]_vars

\* The same with callbacks that leave the AnimationManager alone.
NextAnimPlain ==
  \/ \E trigs \in AnimLists : QueueAnimations(trigs, "none", 0, <<>>)
  \/ ClearQueue
  \/ AnimDispose
  \/ \E q \in QueueIds : TimerFire(q)
  \/ AnimTick

SpecAnimPlain == InitAnim /\ [][NextAnimPlain]_vars

\* The timeouts fire and the clock ticks.
FairAnim ==
  SpecAnimPlain /\ WF_vars(AnimTick) /\ \A q \in QueueIds : WF_vars(TimerFire(q))

\* ================================================================== claims
\* C1: the segments of the streaming queue are synthesized and played one at
\* a time, in order: at no moment are two queue segments in progress, whatever
\* the interleaving of speakChunk, the debounce timer and stop.
OneSegmentAtATime ==
  Cardinality({t \in TaskIds : tasks[t].kind = "queue" /\ Active(t)}) <= 1

\* C2: a stop() step leaves no pending request, no queued segment, no buffered
\* chunk and no armed debounce timer, rejects with 'stopped' exactly the
\* requests that were pending, and emits 'tts:stopped'; a segment is only ever
\* synthesized from the head of the queue, so what stop() cleared never is.
StopPost ==
  /\ pendingTTS' = {}
  /\ pendingMeta' = 0
  /\ audioSegmentQueue' = <<>>
  /\ ~isPlayingQueue'
  /\ chunkBuffer' = <<>>
  /\ armed' = 0
  /\ chunkBufferTimeout' = "null"
  /\ "tts:stopped" \in emitted'
  /\ \A t \in TaskIds :
       IF t \in pendingTTS
         THEN /\ tasks'[t].pc = "r_fail"
              /\ tasks'[t].result = "stopped"
              /\ settled'[t] = settled[t] + 1
         ELSE /\ tasks'[t].pc = tasks[t].pc
              /\ settled'[t] = settled[t]

SegmentBegun ==
  \A t \in TaskIds :
    (tasks[t].pc = "free" /\ tasks'[t].kind = "queue") =>
      LET q == IF armed' < armed
                 THEN audioSegmentQueue \o splitIntoSegments(chunkBuffer)
                 ELSE audioSegmentQueue
      IN  /\ q # <<>>
          /\ tasks'[t].text = Head(q)
          /\ audioSegmentQueue' = Tail(q)

StopClearsAll ==
  /\ [][Stop => StopPost]_vars
  /\ [][SegmentBegun]_vars

StopRejectedPending ==
  /\ emitted = {"tts:stopped"}
  /\ \E t \in TaskIds : tasks[t].pc = "r_fail" /\ tasks[t].result = "stopped"
  /\ \E t \in TaskIds : tasks[t].kind = "queue"

\* C3: no audio of a call begun before a stop() starts playing after that
\* stop(), whichever step the call was suspended in.
NoAudioStartsAfterStop ==
  [][\A t \in TaskIds : (t \notin audible /\ t \in audible') => ~tasks[t].stopped]_vars

\* C4 as stated: a PendingRequest leaves pendingTTS by a response, an error
\* envelope or its timeout, and by nothing else, and its promise is settled
\* once, in that step.
Removal(t) == t \in pendingTTS /\ t \notin pendingTTS'

ByResponse(t) == (\E s \in SockIds : HandleMessage(s)) /\ tasks'[t].pc = "r_synth_ok"

ByErrorEnvelope(t) ==
  /\ \E s \in SockIds : HandleMessage(s)
  /\ tasks'[t].pc = "r_fail" /\ tasks'[t].result = "server"

ByTimeout(t) == Timeout(t) /\ tasks'[t].pc = "r_fail" /\ tasks'[t].result = "timeout"

ByStop(t) == Stop /\ tasks'[t].pc = "r_fail" /\ tasks'[t].result = "stopped"

SettledAtRemoval(t) ==
  /\ Removal(t) => settled[t] = 0 /\ settled'[t] = 1
  /\ settled'[t] # settled[t] => Removal(t)

EverySentSettles ==
  /\ [](pendingTTS \subseteq timers)
  /\ [][\A t \in TaskIds :
          (Timeout(t) /\ t \in pendingTTS) =>
             /\ t \notin pendingTTS'
             /\ tasks'[t].pc = "r_fail" /\ tasks'[t].result = "timeout"
             /\ settled'[t] = settled[t] + 1]_vars
  /\ \A t \in TaskIds : (t \in pendingTTS) ~> (t \notin pendingTTS)

TimedOutConnectionLost ==
  \E t \in TaskIds :
    /\ tasks[t].pc = "r_fail" /\ tasks[t].result = "timeout"
    /\ \A s \in SockIds : sockets[s] = "free"

\* C6: handling a message that belongs to a request no longer pending (a
\* result announcement or an error envelope with its id, the binary frame the
\* server made for it) settles no promise, writes nothing to the cache, emits
\* no 'tts:synthesis-complete' and leaves the pending requests as they are.
Late(msg) ==
  IF msg.type = "binary"
    THEN msg.audio \in TaskIds /\ msg.audio \notin pendingTTS
    ELSE msg.id \notin pendingTTS

LateResponseIgnored ==
  [][\A s \in SockIds :
       (HandleMessage(s) /\ Late(Head(inbox[s]))) =>
          /\ UNCHANGED <<tasks, settled, pendingTTS, cache>>
          /\ "tts:synthesis-complete" \notin emitted']_vars

\* C7: a synthesize that resolves over the channel leaves its result in the
\* cache under its text; a speak whose text has an entry that was not cleared,
\* evicted or expired takes that very result from the cache, sends no message,
\* registers no PendingRequest, arms no timer and opens no connection.
Fresh(text) ==
  \E i \in 1..Len(cache) : cache[i].text = text /\ cache[i].age <= cacheTtl

Cached(text) ==
  cache[CHOOSE i \in 1..Len(cache) : cache[i].text = text].audio

Hello == <<"H", "e", "l">>

World == <<"l", "o", ",", " ", "w", "o", "r", "l", "d", ".">>

Queued ==
  IF nextTask' > nextTask
    THEN <<tasks'[nextTask].text>> \o audioSegmentQueue'
    ELSE audioSegmentQueue'

Debounced ==
  /\ [](armed <= 1)
  /\ [](splitIntoSegments(Hello \o World) = <<Hello \o World>>)
  /\ [][\A text \in Chunks :
          SpeakChunk(text) =>
             /\ chunkBuffer' = chunkBuffer \o text
             /\ armed' = 1
             /\ UNCHANGED <<tasks, nextTask, audioSegmentQueue>>]_vars
  /\ [][(chunkBuffer # <<>> /\ chunkBuffer' = <<>>) => armed' < armed \/ Stop]_vars
  /\ [][Len(audioSegmentQueue') > Len(audioSegmentQueue) => armed' < armed]_vars
  /\ [][(armed' < armed /\ chunkBuffer # <<>> /\ ~Stop) =>
          /\ Queued = audioSegmentQueue \o splitIntoSegments(sinceFlush)
          /\ chunkBuffer' = <<>>]_vars

TwoChunksOneSegment ==
  /\ nextTask = 2 /\ audioSegmentQueue = <<>> /\ chunkBuffer = <<>> /\ armed = 0
  /\ tasks[1].kind = "queue" /\ tasks[1].text = <<"a", ".", "a", ".">>

\* C9: when a queued segment fails (error envelope, timeout, empty audio,
\* playback error) the drain loop goes on: the next segment of the queue is
\* begun in the same step, and with none left the queue is empty and the
\* playing flag cleared.
FailureKeepsDraining ==
  [][\A t \in TaskIds :
       (FinishFail(t) /\ tasks[t].kind = "queue") =>
          IF audioSegmentQueue = <<>>
            THEN audioSegmentQueue' = <<>> /\ ~isPlayingQueue'
            ELSE /\ nextTask' = nextTask + 1
                 /\ tasks'[nextTask].kind = "queue"
                 /\ tasks'[nextTask].text = Head(audioSegmentQueue)
                 /\ tasks'[nextTask].pc \in ActivePcs
                 /\ audioSegmentQueue' = Tail(audioSegmentQueue)
                 /\ isPlayingQueue']_vars

PlayedAfterFailure ==
  \E t \in TaskIds :
    /\ tasks[t].kind = "queue" /\ tasks[t].pc = "done" /\ tasks[t].result = "fail"
    /\ t + 1 \in TaskIds
    /\ tasks[t + 1].kind = "queue" /\ tasks[t + 1].pc = "playing"
    /\ ~tasks[t + 1].stopped
    /\ isPlayingQueue

\* C10: 'tts:speaking-started' is emitted by the step that begins a speak call
\* and by no other; 'tts:speaking-ended' by the step that ends one, after its
\* playback ended or its synthesis or playback failed, and by no other; a call
\* that fails rejects with isSpeaking() false and no audio source of its own
\* held or audible, none at all when no other call is in progress; and every
\* speak call ends.
Begins(t) == tasks[t].pc = "free" /\ tasks'[t].kind = "speak"

Ends(t) == tasks[t].kind = "speak" /\ tasks[t].pc # "done" /\ tasks'[t].pc = "done"

SpeakingEvents ==
  /\ [][("tts:speaking-started" \in emitted') <=> (\E t \in TaskIds : Begins(t))]_vars
  /\ [][("tts:speaking-ended" \in emitted') <=> (\E t \in TaskIds : Ends(t))]_vars
  /\ [][Cardinality({t \in TaskIds : Begins(t) \/ Ends(t)}) <= 1]_vars
  /\ [][\A t \in TaskIds :
          Ends(t) =>
             /\ tasks[t].pc \in {"r_ok", "r_fail"}
             /\ tasks'[t].result = IF tasks[t].pc = "r_ok" THEN "ok" ELSE "fail"
             /\ tasks[t].pc = "r_fail" =>
                  /\ ~isSpeaking'
                  /\ currentAudioSource' # t
                  /\ t \notin audible' \cup halting'
                  /\ (\A u \in TaskIds : ~Active(u)') => currentAudioSource' = 0]_vars
  /\ \A t \in TaskIds : (tasks[t].kind = "speak") ~> (tasks[t].pc = "done")

SpeakFailed ==
  /\ "tts:speaking-ended" \in emitted
  /\ \E t \in TaskIds :
       tasks[t].kind = "speak" /\ tasks[t].pc = "done" /\ tasks[t].result = "fail"

\* C11: a stop() that follows a stop() changes nothing, on the speech
\* orchestrator and on the recognition session alike; no source is held that
\* was stopped before, and the tracks of no stream are stopped twice.
StopTwice ==
  /\ [][(emitted = {"tts:stopped"} /\ Stop) => UNCHANGED ttsVars]_vars
  /\ [][(sttEmitted = {"stt:stopped"} /\ StopSTT) =>
           UNCHANGED <<starts, nextStart, isListening, sttSockets, sttWs,
                       sttWsConnecting, sessionId, mediaRecorder, audioStream,
                       capturing, recording, released, heardOn, sttSent,
                       disposed>>]_vars
  /\ [](currentAudioSource \notin halting)
  /\ [](\A c \in StartIds : released[c] <= 1)

BothStopped ==
  /\ emitted = {"tts:stopped"} /\ halting # {}
  /\ sttEmitted = {"stt:stopped"} /\ \E c \in StartIds : released[c] = 1

\* C12: at most one recognition session is active: whatever the interleaving
\* of start() calls, at most one capture device is held and at most one
\* recorder is recording.
OneSessionAtATime ==
  /\ Cardinality(capturing) <= 1
  /\ Cardinality(recording) <= 1

\* C13: when the session is idle (not listening, no start() in progress) no
\* capture device is held.
NoDeviceWhenIdle ==
  (~isListening /\ \A c \in StartIds : ~SttBusy(c)) => capturing = {}

\* C14: a call that fails because the channel cannot be opened is rejected,
\* with an error event emitted ('tts:error' by the speech orchestrator,
\* 'stt:error' by the recognition session) and the component idle again.
ConnectionFailureSurfaces ==
  [][/\ \A t \in TaskIds :
          (/\ tasks[t].pc = "r_fail" /\ tasks[t].result = "connection"
           /\ tasks'[t].pc = "done") =>
             /\ tasks'[t].result = "fail"
             /\ "tts:error" \in emitted \cup emitted'
             /\ ~isSpeaking'
     /\ \A c \in StartIds :
          (starts[c].pc = "r_refused" /\ starts'[c].pc = "done") =>
             /\ starts'[c].result = "rejected"
             /\ "stt:error" \in sttEmitted'
             /\ ~isListening']_vars


\* C15: with a maximum N >= 1, the cache never holds more than N entries,
\* whatever sequence of get, set and clear it has been through.
StoreBounded == Len(store) <= storeMax

\* A set at capacity has just evicted an entry and the cache is full again.
StoreFullAfterEviction ==
  /\ storeLog.op = "set"
  /\ Len(storeLog.before) = storeMax
  /\ storeLog.key \notin KeysOf(storeLog.before)
  /\ Len(store) = storeMax
  /\ storeMax >= 2

\* C16: a set of a new key into a full cache removes exactly the entry that
\* was inserted earliest and appends the new one; a get of an unexpired entry
\* leaves the Map, and with it the order of eviction, as it was.
SetOfNewKeyAtCapacity ==
  /\ storeLog.op = "set"
  /\ storeLog.key \notin KeysOf(storeLog.before)
  /\ Len(storeLog.before) = storeMax

EvictsOldestInserted ==
  /\ SetOfNewKeyAtCapacity =>
       /\ SubSeq(store, 1, Len(store) - 1) = Tail(storeLog.before)
       /\ store[Len(store)].key = storeLog.key
       /\ Head(storeLog.before).key \notin KeysOf(store)
  /\ (storeLog.op = "get" /\ MapGet(storeLog.before, storeLog.key) # <<>>) =>
       store = storeLog.before

\* A was set, then B, A was read, and C pushed A out all the same.
ReadDidNotSaveOldest ==
  /\ SetOfNewKeyAtCapacity
  /\ storeMax = 2
  /\ got # <<>>
  /\ got[1].key = Head(storeLog.before).key
  /\ got[1].key \notin KeysOf(store)

\* C17: get of an entry older than the TTL returns nothing and removes that
\* entry and no other; get of a younger entry returns it and changes nothing;
\* a set of the same (text, voice) makes it present with a fresh timestamp.
WasExpired ==
  /\ storeLog.op = "get"
  /\ \E i \in KeyIndex(storeLog.before, storeLog.key) :
       storeLog.before[i].age > cacheTtl

WasFresh ==
  /\ storeLog.op = "get"
  /\ \E i \in KeyIndex(storeLog.before, storeLog.key) :
       storeLog.before[i].age <= cacheTtl

ExpiryOnLookup ==
  /\ WasExpired =>
       /\ got = <<>>
       /\ \E i \in KeyIndex(storeLog.before, storeLog.key) :
            store = RemoveAt(storeLog.before, i)
       /\ storeLog.key \notin KeysOf(store)
  /\ WasFresh =>
       /\ got = <<storeLog.before[CHOOSE i \in KeyIndex(storeLog.before, storeLog.key) : TRUE]>>
       /\ store = storeLog.before
  /\ storeLog.op = "set" =>
       /\ MapGet(store, storeLog.key) # <<>>
       /\ MapGet(store, storeLog.key)[1].age = 0

\* An expired entry has just been looked up and removed, another one stays.
ExpiredRemoved ==
  /\ WasExpired
  /\ Len(storeLog.before) = 2
  /\ Len(store) = 1


\* The segments joined end to end.
RECURSIVE Concat(_)
Concat(segs) == IF segs = <<>> THEN <<>> ELSE Head(segs) \o Concat(Tail(segs))

\* C18: the splitter neither drops nor reorders characters: the segments it
\* returns, concatenated in order (it returns no remainder), are the input.
SplitPreservesText == splitDone => Concat(splitOut) = splitIn

\* The durations of a viseme sequence added up.
RECURSIVE SumDurations(_)
SumDurations(visemes) ==
  IF visemes = <<>> THEN 0 ELSE Head(visemes).duration + SumDurations(Tail(visemes))

Distance(a, b) == IF a >= b THEN a - b ELSE b - a

\* C19: for every text, with or without a duration, textToVisemes returns a
\* sequence that is not empty, begins and ends with silence, and whose
\* durations add up to the duration given (or to the text length times the
\* seconds per character) within the rounding tolerance.
VisemesSpanDuration ==
  visDone =>
    /\ visOut # <<>>
    /\ visOut[1].name = "sil"
    /\ visOut[Len(visOut)].name = "sil"
    /\ Distance(SumDurations(visOut), TotalDuration(visText, visHint) * TimeScale)
         <= Tolerance * TimeScale

\* The three parts of it on their own.
VisemesNotEmpty == visDone => visOut # <<>>

VisemesSilentEnds ==
  (visDone /\ visOut # <<>>) =>
     visOut[1].name = "sil" /\ visOut[Len(visOut)].name = "sil"

VisemesSumToDuration ==
  (visDone /\ visOut # <<>>) =>
     Distance(SumDurations(visOut), TotalDuration(visText, visHint) * TimeScale)
       <= Tolerance * TimeScale

\* C20: when a handler throws during emit, nothing reaches the emitter and
\* every handler subscribed to the event is still invoked for that emit,
\* wherever the throwing handler stands in the order of subscription.
HandlerFailureIsolated ==
  [][\A e \in BusEvents :
       (BusEmit(e) /\ \E i \in 1..Len(listeners[e]) : listeners[e][i] \in throwing) =>
          /\ ~escaped'
          /\ called' = listeners[e]]_vars

\* An emit went through a handler that threw, first in line, and through the
\* handlers after it, the last of which threw as well.
ThrowerFirstAndLast ==
  /\ ~escaped
  /\ Len(called) = 3
  /\ called[1] \in throwing
  /\ called[2] \notin throwing
  /\ called[3] \in throwing

\* C21: a handler registered with once() is invoked by the first emit of its
\* event after registration and by no later one, also when a handler emits
\* the event again during that delivery and when the handler throws.
OnceFiresOnce ==
  /\ [](\A w \in WrapIds : delivered[w] <= 1)
  /\ [][\A e \in BusEvents : BusEmitDeep(e) =>
           \A w \in WrapIds :
              (\E i \in 1..Len(listeners[e]) : listeners[e][i] = w) =>
                 /\ Times(called', w) = 1
                 /\ \A i \in 1..Len(listeners'[e]) : listeners'[e][i] # w]_vars

\* A once() handler that throws and emits again was delivered, and a later
\* emit of the same event went to another handler only.
OnceThrowerNotCalledAgain ==
  \E w \in WrapIds :
    /\ delivered[w] = 1
    /\ wrapped[w].h \in throwing \cap emitting
    /\ lastEmit = wrapped[w].event
    /\ called # <<>>
    /\ Times(called, w) = 0

\* C22: a subscription taken back (by the function on()/once() returned, by
\* off() for its handler, or by removeAllListeners()) is invoked by no later
\* emit, the subscriptions not taken back are all invoked, and an emit of an
\* event with no listeners does nothing and raises nothing.
RemovedGetsNoEvents ==
  [][\A e \in BusEvents : BusEmitDeep(e) =>
       /\ ~escaped'
       /\ \A i \in 1..Len(called') : <<e, called'[i]>> \in subs
       /\ \A sb \in subs : sb[1] = e => Times(called', sb[2]) > 0
       /\ listeners[e] = <<>> => (called' = <<>> /\ listeners' = listeners)]_vars

\* What call q of queueAnimations has played is the beginning of its list.
PlayedInOrder(q) ==
  animQueues[q].plays = SubSeq(animQueues[q].triggers, 1, Len(animQueues[q].plays))

\* Call q is under way and nothing has cancelled it.
Running(q) == animQueues[q].pc = "live" /\ ~animQueues[q].cancelled

\* In this step call q starts its next trigger.
StartsNext(q) == Len(animQueues'[q].plays) = Len(animQueues[q].plays) + 1

\* In this step onComplete of call q is invoked.
Completes(q) == animQueues'[q].completes = animQueues[q].completes + 1

\* The registered duration of the trigger call q started last has elapsed.
LastElapsed(q) ==
  animQueues[q].since =
    getDuration(animQueues[q].plays[Len(animQueues[q].plays)]) \div msPerTick

\* C23: a queue that is not cancelled is played as one ordered sequence:
\* trigger 0 at once, trigger k+1 when the registered duration of trigger k
\* has elapsed, onPlay once per trigger in list order, at most one animation
\* current, and onComplete exactly once, after the duration of the last
\* trigger, or at once for an empty list.
QueuePlaysInOrder ==
  /\ [](\A q \in QueueIds :
          /\ PlayedInOrder(q)
          /\ Running(q) => Len(animQueues[q].plays) = animQueues[q].index + 1
          /\ ~animQueues[q].cancelled =>
                /\ animQueues[q].completes <= 1
                /\ animQueues[q].pc = "done" =>
                      (animQueues[q].completes = 1 /\ animQueues[q].plays = animQueues[q].triggers))
  /\ [](Cardinality(animPlaying) <= 1)
  /\ [][\A q \in QueueIds :
           /\ (animQueues[q].pc = "free" /\ animQueues'[q].pc # "free"
                  /\ animQueues'[q].triggers = <<>>) => animQueues'[q].completes = 1
           /\ (Running(q) /\ StartsNext(q)) =>
                 /\ LastElapsed(q)
                 /\ (~animQueues'[q].cancelled
                       /\ animQueues'[q].plays[Len(animQueues'[q].plays)] \in actions) =>
                      currentAction' = animQueues'[q].plays[Len(animQueues'[q].plays)]
           /\ (Running(q) /\ Completes(q)) => LastElapsed(q)]_vars
  /\ \A q \in QueueIds : Running(q) ~> (animQueues[q].pc = "done" \/ animQueues[q].cancelled)

\* A list of two triggers was played to its end and completed, uncancelled.
TwoPlayedAndCompleted ==
  \E q \in QueueIds :
    /\ ~animQueues[q].cancelled
    /\ animQueues[q].plays = <<"headNod", "idle">>
    /\ animQueues[q].completes = 1
    /\ currentAction = "idle"

\* C24: once clearQueue(), dispose() or a new queueAnimations call has
\* cancelled a queue, none of its remaining triggers is played and its onPlay
\* and onComplete are not invoked again, also when the call was made from
\* inside its own onPlay callback.
CancelledStaysSilent ==
  [][\A q \in QueueIds :
       animQueues[q].cancelled =>
         /\ animQueues'[q].plays = animQueues[q].plays
         /\ animQueues'[q].completes = animQueues[q].completes]_vars

\* C25: a binary frame is taken as the payload of the result announced last:
\* it resolves the pending request of that id and no other, it uses the
\* announcement up, and with nothing announced it is ignored; so, the server
\* sending each announcement with its frame right behind, a synthesize call
\* resolves with the frame made for its own id.
FrameGoesToAnnounced ==
  [][\A s \in SockIds :
       (HandleMessage(s) /\ Head(inbox[s]).type = "binary") =>
          /\ pendingMeta' = 0
          /\ pendingMeta = 0 => UNCHANGED <<tasks, settled, pendingTTS, cache>>
          /\ \A t \in TaskIds : t # pendingMeta => tasks'[t] = tasks[t]
          /\ (pendingMeta # 0 /\ pendingMeta \in pendingTTS) =>
                /\ tasks'[pendingMeta].pc = "r_synth_ok"
                /\ tasks'[pendingMeta].audio \in {pendingMeta, EmptyAudio}]_vars

\* The sockets of a channel in a given state.
SocketsIn(socks, states) == {s \in SockIds : socks[s] \in states}

\* C26: one connection attempt at most is in flight per channel: callers that
\* ask for a connection while one is pending wait for that attempt and no
\* second socket is made, also after a failed attempt and a retry.
OneAttemptInFlight ==
  /\ Cardinality(SocketsIn(sockets, {"connecting"})) <= 1
  /\ Cardinality(SocketsIn(sttSockets, {"connecting"})) <= 1
  /\ \A t \in TaskIds : tasks[t].pc = "connect" => sockets[tasks[t].sock] = "connecting"
  /\ \A c \in StartIds : starts[c].pc = "connect" => sttSockets[starts[c].sock] = "connecting"

\* C27: a channel has one socket open or connecting at most; its socket
\* reference, when set, is that socket, open; and the close event of an older
\* socket leaves the reference to a newer open socket alone.
NoDuplicateSockets ==
  /\ [](Cardinality(SocketsIn(sockets, {"open", "connecting"})) <= 1)
  /\ [](Cardinality(SocketsIn(sttSockets, {"open", "connecting"})) <= 1)
  /\ [](ws # 0 => sockets[ws] = "open")
  /\ [](sttWs # 0 => sttSockets[sttWs] = "open")
  /\ [][\A s \in SockIds : (OnClose(s) /\ ws # 0 /\ ws # s) => ws' = ws]_vars
  /\ [][\A s \in SockIds : (SttOnClose(s) /\ sttWs # 0 /\ sttWs # s) => sttWs' = sttWs]_vars

\* C28: a text is synthesized once while its result is unexpired: two requests
\* for one text are never pending together, and no request is sent for a text
\* the cache holds or another pending request already asks for; this covers a
\* second call made while the first still awaits its response.
OneRequestPerText ==
  /\ [](\A t \in pendingTTS : \A u \in pendingTTS :
          t # u => tasks[t].text # tasks[u].text)
  /\ [][\A t \in TaskIds :
          (Connected(t) /\ ws # 0) =>
             /\ ~CacheHit(tasks[t].text)
             /\ \A u \in pendingTTS : tasks[u].text # tasks[t].text]_vars

\* The session a message on the recognition wire belongs to.
SessionOf(m) == IF m.type = "binary" THEN chunks[m.chunk].id ELSE m.id

\* The start envelope of a session is sent once.
OneStart(i) ==
  \A j \in 1..Len(sttSent) :
     (j # i /\ sttSent[j].type = "stt:start") => sttSent[j].id # sttSent[i].id

\* An audio envelope comes after the start envelope of its session, and what
\* follows it is its own binary frame.
ChunkInPlace(i) ==
  /\ \E j \in 1..(i - 1) :
        sttSent[j].type = "stt:start" /\ sttSent[j].id = sttSent[i].id
  /\ i < Len(sttSent) =>
        /\ sttSent[i + 1].type = "binary"
        /\ sttSent[i + 1].chunk = sttSent[i].chunk

\* A binary frame comes right after its own audio envelope.
FrameInPlace(i) ==
  /\ i > 1
  /\ sttSent[i - 1].type = "stt:audio"
  /\ sttSent[i - 1].chunk = sttSent[i].chunk

\* Nothing of a session is sent after its stop envelope.
StopIsLast(i) ==
  \A j \in (i + 1)..Len(sttSent) : SessionOf(sttSent[j]) # sttSent[i].id

\* C29: on the recognition wire a session has one start envelope, sent before
\* its audio envelopes; every audio envelope is followed at once by its own
\* binary frame, nothing in between; and the stop envelope is the last message
\* of its session.
WireOrdered ==
  \A i \in 1..Len(sttSent) :
     /\ sttSent[i].type = "stt:start" => OneStart(i)
     /\ sttSent[i].type = "stt:audio" => ChunkInPlace(i)
     /\ sttSent[i].type = "binary" => FrameInPlace(i)
     /\ sttSent[i].type = "stt:stop" => StopIsLast(i)

\* Session c is ended by this step: by stop(), by the server's end-of-speech
\* for it, or by an error of its recorder.
EndsSession(c) ==
  /\ isListening
  /\ sessionId = c
  /\ StopSTT \/ EndOfSpeech(c) \/ RecorderError(c)

\* C30: stop(), end-of-speech and a recorder error end the session the
\* service is listening to the same way: the step that ends it releases its
\* capture device, which is then released once, clears the session id and
\* leaves the service not listening, so that start() can run again; however
\* the three are interleaved afterwards, no device is released twice.
OneCleanup ==
  /\ [](\A c \in StartIds : released[c] <= 1)
  /\ [][\A c \in StartIds :
          EndsSession(c) =>
             /\ released'[c] = 1
             /\ c \notin capturing'
             /\ sessionId' = 0
             /\ audioStream' = 0
             /\ mediaRecorder' = 0
             /\ ~isListening']_vars

\* A session the server ended: its device was released once, the service is
\* idle, and no stop envelope was sent for it.
EndedByServer ==
  \E c \in StartIds :
     /\ released[c] = 1
     /\ c \notin capturing
     /\ sessionId = 0
     /\ ~isListening
     /\ sttEmitted = {"stt:stopped"}
     /\ \A i \in 1..Len(sttSent) :
           ~(sttSent[i].type = "stt:stop" /\ sttSent[i].id = c)

\* C31: an envelope of the server whose id is not the id of the session in
\* progress (a session stopped or superseded, or none in progress) is dropped:
\* handling it emits no event and changes no field of the service.
StaleEnvelopeDropped ==
  [][\A id \in StartIds :
       ((EndOfSpeech(id) \/ \E type \in EnvelopeTypes : SttEnvelope(id, type))
          /\ id # sessionId) =>
             /\ sttEmitted' = {}
             /\ UNCHANGED sttVarsButEmitted]_vars

\* An envelope of a session that is over was handled last, with no session in
\* progress, and nothing was emitted.
StaleEnvelopeSeen ==
  /\ lastEnvelope.id # 0
  /\ lastEnvelope.session = 0
  /\ sessionId = 0
  /\ released[lastEnvelope.id] = 1
  /\ sttEmitted = {}

\* The marks that end a sentence or a clause.
Boundaries == {".", "!", "?", ";", ","}

\* C32: text left over after the last boundary is not spoken yet: of a text
\* no longer than the cap the splitter returns only segments that end at a
\* sentence or clause boundary, the tail without one being held back.
TailHeldBack ==
  (splitDone /\ Len(Trim(splitIn)) <= splitCap) =>
     \A i \in 1..Len(splitOut) :
        splitOut[i][Len(splitOut[i])] \in Boundaries

\* C33: of a text without any sentence or clause mark the splitter returns no
\* segment longer than the cap: it breaks at the last whitespace at or before
\* the cap when that lies beyond the minimum offset, and after the first cap
\* characters otherwise.
CapHolds ==
  (splitDone /\ \A i \in 1..Len(splitIn) : splitIn[i] \notin Boundaries) =>
     \A i \in 1..Len(splitOut) : Len(splitOut[i]) <= splitCap

\* C34: the visemes of a synthesis result, which are those of its text with
\* no duration given, add up to the result's duration field within the
\* rounding tolerance.
VisemesSpanResult ==
  (visDone /\ visHint = Auto) =>
     Distance(SumDurations(visOut), ResultDuration(visText) * TimeScale)
       <= Tolerance * TimeScale

\* C35: a segment of the queue whose synthesis stop() rejected is not logged
\* as a failure: the draining code writes no error for the 'stopped'
\* rejection.
StoppedNotLogged ==
  [][\A t \in TaskIds : FinishFail(t) => "stopped" \notin ConsoleError(t)]_vars

\* C36: after dispose() the recognition service (the speech service has the
\* same dispose and ensureWebSocket) holds no open socket and none becomes
\* open: its socket reference and connection promise stay cleared, also when
\* a connection attempt was in flight at dispose() and opens afterwards.
DisposedStaysClosed ==
  disposed =>
    /\ sttWs = 0
    /\ sttWsConnecting = 0
    /\ \A s \in SockIds : sttSockets[s] # "open"

\* A speak() call is in progress: it has emitted 'tts:speaking-started' and
\* not yet 'tts:speaking-ended'.
SpeakInProgress == \E t \in TaskIds : tasks[t].kind = "speak" /\ Active(t)

\* C37: between the steps of the program isSpeaking() tells whether some
\* speak() call is in progress: true while one is, false when none is, also
\* when two calls overlap and the first ends before the second.
IsSpeakingTellsProgress == Idle => (isSpeaking <=> SpeakInProgress)

\* C38: 'stt:started' and 'stt:stopped' come in pairs.  The events alternate
\* exactly when the listening flag tells whether a started is unmatched:
\* a step emits 'stt:started' only when the service is not listening and
\* 'stt:stopped' only when it is, and the flag changes only in a step that
\* emits the one or the other, however the session ends.
StartedStoppedPaired ==
  [][NextSTT =>
       /\ "stt:started" \in sttEmitted' => (~isListening /\ isListening')
       /\ "stt:stopped" \in sttEmitted' => (isListening /\ ~isListening')
       /\ (~isListening /\ isListening') => "stt:started" \in sttEmitted'
       /\ (isListening /\ ~isListening') => "stt:stopped" \in sttEmitted']_vars

\* C39: a set on a key the cache holds only replaces that entry: every key
\* held before is held after and the number of entries is the same, also at
\* capacity.
SetOfHeldKeyReplaces ==
  (storeLog.op = "set" /\ storeLog.key \in KeysOf(storeLog.before)) =>
     /\ KeysOf(storeLog.before) \subseteq KeysOf(store)
     /\ Len(store) = Len(storeLog.before)

\* A segment has whitespace at neither end.
Trimmed(seg) == Trim(seg) = seg

\* C40: splitIntoSegments comes to its end on every text, each iteration of
\* its loop leaving `remaining` strictly shorter; what it returns are
\* segments that are not empty and have whitespace at neither end, and for a
\* text that is empty or all whitespace it returns none.
SplitTerminatesClean ==
  /\ <>splitDone
  /\ [][SplitIterate => Len(loopRemaining') < Len(loopRemaining)]_vars
  /\ [](splitDone =>
         /\ \A i \in 1..Len(splitOut) :
               Len(splitOut[i]) > 0 /\ Trimmed(splitOut[i])
         /\ Len(Trim(splitIn)) = 0 => splitOut = <<>>)

\* A text of two segments was split in two iterations and returned.
SplitInTwoIterations ==
  /\ splitDone
  /\ Len(loopSegments) = 2
  /\ Len(splitOut) = 2
  /\ Len(splitIn) > Len(splitOut[1]) + Len(splitOut[2])

\* Run step by step the splitter returns what splitIntoSegments returns.
LoopIsSplitWith ==
  splitDone => splitOut = SplitWith(splitIn, splitCap, splitMin)

====
